---- MODULE Spec2Model ----
(***************************************************************************)
(* Model of the analytics-dashboard fetch scripts: the GA4 report fetchers *)
(* (date-range resolution, KPI rows, referrer/author breakdowns, per-day   *)
(* merge) and the article/topic fetchers (tag aggregation).                *)
(*                                                                         *)
(* Representation                                                          *)
(*   - A JS Date is a number of whole hours since 2024-01-01T00:00Z.       *)
(*   - A hyphenated date string "YYYY-MM-DD" is a record [y, m, d]; the    *)
(*     compact string "YYYYMMDD" is the number y*10000 + m*100 + d.        *)
(*   - The process time zone is a fixed offset tz (hours east of UTC).     *)
(*   - A JS object is a function from field names to values; a field that  *)
(*     was never assigned is not in its DOMAIN.                            *)
(*   - A GA4 metric value is a natural number, or -1 for a value that is   *)
(*     empty or not numeric.                                               *)
(***************************************************************************)
EXTENDS Integers, Sequences, FiniteSets, TLC

VARIABLES
    script,      \* which script of the repository is running
    pc,          \* position of the script's main()
    now,         \* wall clock at process start (hours since 2024-01-01T00:00Z)
    tz,          \* process time zone, hours east of UTC
    DAYS,        \* lookback window (GA4_DAYS / --days); fixed 7 where hard-coded
    startDate,   \* range start as a Date
    endDate,     \* range end as a Date
    startYMD,    \* range start, hyphenated
    endYMD,      \* range end, hyphenated
    dayList,     \* days the script enumerates (compact keys), in order
    reqKeys,     \* days the request's dateRanges covers (compact keys, ascending)
    kpiState,    \* KPI report promise: "idle" | "pending" | "ok" | "failed"
    refState,    \* referrer report promise
    authState,   \* author report promise
    authIdx,     \* index of the author dimension candidate being probed
    kpiReport,   \* rows of the KPI report as received
    refReport,   \* rows of the referrer report as received
    authReport,  \* rows of the accepted author report as received
    kpis,        \* fetchDailyKPIs result: compact date -> row
    refMap,      \* fetchReferrersPerDay result: compact date -> entries
    authMap,     \* fetchAuthorsPerDay result: compact date -> entries
    rows,        \* rows of the document written to data/ga4.json
    written,     \* whether the output document was written
    exitCode,    \* process exit status; -1 while running
    dimAuthor,   \* whether GA4_AUTHOR_DIMENSION is set (per-day sequential script)
    dimSection,  \* whether GA4_SECTION_DIMENSION is set (per-day sequential script)
    dayIdx,      \* index in dayList of the day the per-day loop is at
    failures,    \* number of per-day breakdown fetches that have failed
    articles,    \* topic fetchers: the normalized articles collected so far (all)
    topics,      \* topic fetchers: the topics list written to the output
    page,        \* generic article fetchers: number of the page being requested
    itemsKey,    \* generic article fetchers: --itemsKey ("" when not given)
    resOk,       \* whether the last page response had a 2xx status
    body,        \* the parsed body of the last page response
    items,       \* the item list resolved from the last page response
    probeLast,   \* author probe: outcome of the last attempt ("none" before any)
    propertyId,  \* whether GA4_PROPERTY_ID / --property is present
    requests,    \* upstream requests issued so far, in order
    pageParam,   \* article fetchers: whether --pageParam names a query parameter
    doc,         \* page-loop article fetchers: the document written by this run
    prevDoc,     \* the document written by the previous run against the same mock
    mock,        \* the mocked upstream: its answer to each page request (<<>>: none)
    values,      \* Sheets fetchers: the rows of cells the Sheets API returned
    sheetData    \* Sheets fetchers: the keyed rows written to the document

dateVars == <<now, tz, DAYS, startDate, endDate, startYMD, endYMD, dayList, reqKeys>>
fetchVars == <<kpiState, refState, authState, authIdx, kpiReport, refReport, authReport>>
dataVars == <<kpis, refMap, authMap>>
outVars == <<rows, written, exitCode>>
ga4Vars == <<fetchVars, dataVars, outVars>>
seqVars == <<dimAuthor, dimSection, dayIdx, failures>>
wexVars == <<articles, topics>>
pageVars == <<page, itemsKey, resOk, body, items>>
sheetVars == <<values, sheetData>>
runVars == <<propertyId, requests, pageParam, doc, prevDoc, mock, sheetVars>>
vars == <<script, pc, dateVars, ga4Vars, seqVars, wexVars, pageVars, probeLast, runVars>>

\* the empty Map / object
EmptyMap == [k \in {} |-> <<>>]

\* state of the GA4 pipeline before any report is requested
GA4Idle ==
    /\ kpiState = "idle" /\ refState = "idle" /\ authState = "idle"
    /\ authIdx = 0
    /\ kpiReport = <<>> /\ refReport = <<>> /\ authReport = <<>>
    /\ kpis = EmptyMap /\ refMap = EmptyMap /\ authMap = EmptyMap
    /\ rows = <<>> /\ written = FALSE /\ exitCode = -1
    /\ dayIdx = 0 /\ failures = 0
    /\ articles = <<>> /\ topics = <<>>
    /\ probeLast = "none"

NoDate == [y |-> 0, m |-> 0, d |-> 0]

\* no page response has been received
NoBody == [kind |-> "none", items |-> <<>>, fields |-> [k \in {} |-> 0]]

\* no document
NoDoc == [x \in {} |-> 0]

\* state of the page loop of a script that has none
PagesIdle ==
    /\ page = 0 /\ itemsKey = "" /\ resOk = TRUE /\ body = NoBody /\ items = <<>>

----------------------------------------------------------------------------
(* Calendar arithmetic of the JS Date object (proleptic Gregorian).         *)

IsLeap(y) == (y % 4 = 0 /\ y % 100 # 0) \/ y % 400 = 0

DaysInYear(y) == IF IsLeap(y) THEN 366 ELSE 365

DaysInMonth(y, m) ==
    IF m = 2 THEN (IF IsLeap(y) THEN 29 ELSE 28)
    ELSE IF m \in {4, 6, 9, 11} THEN 30 ELSE 31

RECURSIVE YearFrom(_, _)
YearFrom(n, y) ==
    IF n < DaysInYear(y) THEN [y |-> y, doy |-> n]
    ELSE YearFrom(n - DaysInYear(y), y + 1)

RECURSIVE MonthFrom(_, _, _)
MonthFrom(y, doy, m) ==
    IF doy < DaysInMonth(y, m) THEN [y |-> y, m |-> m, d |-> doy + 1]
    ELSE MonthFrom(y, doy - DaysInMonth(y, m), m + 1)

\* day number (0 = 2024-01-01) -> calendar fields
Civil(n) == LET yr == YearFrom(n, 2024) IN MonthFrom(yr.y, yr.doy, 1)

RECURSIVE DaysBeforeYear(_)
DaysBeforeYear(y) == IF y <= 2024 THEN 0 ELSE DaysInYear(y - 1) + DaysBeforeYear(y - 1)

RECURSIVE DaysBeforeMonth(_, _)
DaysBeforeMonth(y, m) == IF m <= 1 THEN 0 ELSE DaysInMonth(y, m - 1) + DaysBeforeMonth(y, m - 1)

\* calendar fields -> day number; the day of month may lie outside the month
\* (JS MakeDay normalises setDate(0), setDate(-5), setDate(32))
DaysFromCivil(y, m, d) == DaysBeforeYear(y) + DaysBeforeMonth(y, m) + d - 1

At(y, m, d, h) == DaysFromCivil(y, m, d) * 24 + h

\* Date.prototype.getUTCFullYear/getUTCMonth/getUTCDate
UTCFields(t) == Civil(t \div 24)

\* Date.prototype.getFullYear/getMonth/getDate in a zone tzo hours east of UTC
LocalFields(t, tzo) == Civil((t + tzo) \div 24)

\* dt.setUTCDate(dom): same UTC month and time of day, day of month dom
SetUTCDate(t, dom) ==
    LET c == UTCFields(t) IN DaysFromCivil(c.y, c.m, dom) * 24 + (t % 24)

\* dt.setDate(dom): same local month and time of day, day of month dom
SetDate(t, dom, tzo) == SetUTCDate(t + tzo, dom) - tzo

\* new Date(Date.UTC(y, m, d)): midnight UTC of the instant's UTC day
truncUTC(t) == LET c == UTCFields(t) IN DaysFromCivil(c.y, c.m, c.d) * 24

\* "YYYY-MM-DD".replaceAll('-', '') and the yyyymmdd() helpers
Compact(c) == c.y * 10000 + c.m * 100 + c.d

\* the calendar day a hyphenated string names, as a day number
DayNumber(c) == DaysFromCivil(c.y, c.m, c.d)

\* every calendar day from s to e (hyphenated strings), as compact keys ascending:
\* what a report request with dateRanges {startDate: s, endDate: e} covers
KeysBetween(s, e) ==
    LET n0 == DayNumber(s)
    IN [i \in 1..(DayNumber(e) - n0 + 1) |-> Compact(Civil(n0 + i - 1))]

----------------------------------------------------------------------------
(* Bounds and input sets of the date-range resolver.                        *)

MaxDays == 8

\* hours east of UTC the process may run in (TZ of the runner)
TZOffsets == {-8, 0, 9}

\* wall-clock instants: around a leap day, a month end, a year end, mid-month
NowChoices ==
    { At(2024, 3, 1, 2), At(2024, 3, 5, 23), At(2024, 5, 31, 20),
      At(2025, 1, 1, 0), At(2025, 1, 3, 12), At(2024, 7, 10, 6) }

----------------------------------------------------------------------------
(* Date-range resolvers of the GA4 scripts.                                 *)

\* fetch_ga4.js (yesterday-only, env driven): addDays(d, n)
addDays(d, n) == SetUTCDate(d, UTCFields(d).d + n)

\* fetch_ga4.js (yesterday-only, env driven): ymd(d), UTC fields
ymd(d) == UTCFields(d)

\* toISOString().slice(0, 10)
iso(d) == UTCFields(d)

\* toYMD / ymd of the scripts that format with getFullYear/getMonth/getDate
toYMD(d, tzo) == LocalFields(d, tzo)

\* eachDay(d0, d1): while (d <= d1) { out.push(d); d.setUTCDate(d.getUTCDate() + 1) }
RECURSIVE eachDay(_, _)
eachDay(d0, d1) ==
    IF d0 <= d1 THEN <<d0>> \o eachDay(SetUTCDate(d0, UTCFields(d0).d + 1), d1)
    ELSE <<>>

\* yesterday-only script: end = ymd(addDays(today, -1)), start = ymd(addDays(today, -DAYS))
ResolveYesterdayEnv ==
    /\ script = "yesterday_env" /\ pc = "start" /\ propertyId
    /\ endDate' = addDays(now, -1)
    /\ startDate' = addDays(now, -DAYS)
    /\ endYMD' = ymd(endDate')
    /\ startYMD' = ymd(startDate')
    /\ reqKeys' = KeysBetween(startYMD', endYMD')
    /\ dayList' = <<>>
    /\ pc' = "resolved"
    /\ UNCHANGED <<script, runVars, probeLast, pageVars, seqVars, wexVars, now, tz, DAYS, ga4Vars>>

\* per-day sequential script: truncUTC(now), yesterday, then six days back; eachDay
ResolvePerDaySeq ==
    /\ script = "perday_seq" /\ pc = "start" /\ propertyId
    /\ LET todayUTC == truncUTC(now)
           e == SetUTCDate(todayUTC, UTCFields(todayUTC).d - 1)
           s == SetUTCDate(e, UTCFields(e).d - 6)
       IN /\ endDate' = e
          /\ startDate' = s
          /\ endYMD' = iso(e)
          /\ startYMD' = iso(s)
          /\ reqKeys' = KeysBetween(iso(s), iso(e))
          /\ dayList' = LET ds == eachDay(s, e) IN [i \in 1..Len(ds) |-> Compact(iso(ds[i]))]
    /\ pc' = "resolved"
    /\ UNCHANGED <<script, runVars, probeLast, pageVars, seqVars, wexVars, now, tz, DAYS, ga4Vars>>

\* scripts that resolve the range with local-time setters:
\* end.setDate(end.getDate() - 1); start.setDate(start.getDate() - (DAYS - 1))
ResolveLocal ==
    /\ script \in {"probe", "fanout", "rest"} /\ pc = "start" /\ propertyId
    /\ LET e == SetDate(now, LocalFields(now, tz).d - 1, tz)
           s == SetDate(e, LocalFields(e, tz).d - (DAYS - 1), tz)
       IN /\ endDate' = e
          /\ startDate' = s
          /\ endYMD' = toYMD(e, tz)
          /\ startYMD' = toYMD(s, tz)
          /\ reqKeys' = KeysBetween(toYMD(s, tz), toYMD(e, tz))
    /\ dayList' = <<>>
    /\ pc' = "resolved"
    /\ UNCHANGED <<script, runVars, probeLast, pageVars, seqVars, wexVars, now, tz, DAYS, ga4Vars>>

\* main() has not passed the property id check: the range is resolved after it,
\* except where the upstream resolves '7daysAgo' and 'yesterday' itself
Booting == pc = "start" \/ (script = "last7" /\ pc = "resolved" /\ kpiState = "idle")

\* if (!PROPERTY_ID) { console.error(...); process.exit(1); }  (or the throw
\* that main().catch turns into process.exit(1))
MissingProperty_ExitsZero ==
    /\ Booting /\ ~propertyId
    /\ exitCode' = 0
    /\ pc' = "done"
    /\ UNCHANGED <<script, runVars, probeLast, pageVars, seqVars, wexVars, dateVars, fetchVars, dataVars, rows, written>>

MissingProperty ==
    /\ Booting /\ ~propertyId
    /\ exitCode' = 1
    /\ pc' = "done"
    /\ UNCHANGED <<script, runVars, probeLast, pageVars, seqVars, wexVars, dateVars, fetchVars, dataVars, rows, written>>

InitDates ==
    /\ script \in {"yesterday_env", "perday_seq", "rest"}
    /\ pc = "start"
    /\ now \in NowChoices
    /\ tz \in TZOffsets
    /\ DAYS \in (IF script = "perday_seq" THEN {7} ELSE 1..MaxDays)
    /\ startDate = 0 /\ endDate = 0
    /\ startYMD = NoDate /\ endYMD = NoDate
    /\ dayList = <<>> /\ reqKeys = <<>>
    /\ dimAuthor = FALSE /\ dimSection = FALSE
    /\ GA4Idle
    /\ propertyId \in BOOLEAN /\ requests = <<>> /\ doc = NoDoc /\ prevDoc = NoDoc /\ mock = <<>>
    /\ values = <<>> /\ sheetData = <<>>
    /\ pageParam = TRUE
    /\ PagesIdle

NextDates == MissingProperty \/ ResolveYesterdayEnv \/ ResolvePerDaySeq \/ ResolveLocal

SpecDates == InitDates /\ [][NextDates]_vars

\* yesterday in UTC, as a hyphenated date
YesterdayUTC == Civil((now \div 24) - 1)

\* C5: for every window N >= 1 and every 'now', the resolved interval ends at
\* yesterday (UTC) and holds exactly N consecutive calendar days
\* (start = end - (N-1) days); the enumerated days have no duplicates or gaps.
C5_RangeIsNDaysEndingYesterdayUTC ==
    pc = "resolved" =>
        /\ endYMD = YesterdayUTC
        /\ DayNumber(endYMD) - DayNumber(startYMD) = DAYS - 1
        /\ script = "perday_seq" =>
              dayList = [i \in 1..DAYS |-> Compact(Civil(DayNumber(startYMD) + i - 1))]

\* the same statement restricted to the scripts that resolve the range in UTC
C5_HoldsForUTCResolvers ==
    script \in {"yesterday_env", "perday_seq"} => C5_RangeIsNDaysEndingYesterdayUTC

\* the local-time resolver ran in a zone whose calendar day differs from UTC's
C5_LocalDayDiffers ==
    /\ pc = "resolved" /\ script = "rest"
    /\ LocalFields(now, tz) # UTCFields(now)

----------------------------------------------------------------------------
(* Upstream GA4 reports (inputs).                                           *)

MaxOmit == 1
MaxRows == 14

\* the days the request's dateRanges names, as compact keys in ascending order
RangeKeys == reqKeys

RangeKeySet == {reqKeys[i] : i \in DOMAIN reqKeys}

\* raw value of metric j the report carries for a day: -1 (empty), 0, 1 or 2
MetricOf(key, j) == ((key + j) % 4) - 1

\* a KPI report row: dimensionValues[0] and the six metricValues
KpiRowOf(key) == [date |-> key, mv |-> [j \in 1..6 |-> MetricOf(key, j)]]

\* a KPI report: one row per range day not in omit, ordered by date; optionally
\* the first row once more, or a row dated the day after the range
KpiReportOf(omit, extra) ==
    LET present == SelectSeq(RangeKeys, LAMBDA k : k \notin omit)
        base == [i \in 1..Len(present) |-> KpiRowOf(present[i])]
    IN base \o
       (IF extra = "dup" /\ Len(base) > 0 THEN <<[base[1] EXCEPT !.mv = [j \in 1..6 |-> 2]]>>
        ELSE IF extra = "stray" THEN <<KpiRowOf(Compact(Civil(DayNumber(endYMD) + 1)))>>
        ELSE <<>>)

KpiReports ==
    { KpiReportOf(omit, extra) :
        omit \in {o \in SUBSET RangeKeySet : Cardinality(o) <= MaxOmit},
        extra \in {"none", "dup", "stray"} }

\* values of the second dimension of a breakdown report
DimNames == <<"alpha", "beta", "(not set)", "gamma", " ", "delta", "epsilon">>

\* a breakdown report (date x dimension): n rows, three of four on the second
\* range day and the rest on the last; users follow the pattern (i*k) mod 7, less
\* one (so -1, the empty value, occurs); row number blank has an empty dimension
\* (with n = 1 the report holds that row alone)
BreakdownReportOf(n, k, blank) ==
    [i \in 1..n |->
        [date  |-> IF i % 4 = 0 THEN RangeKeys[Len(RangeKeys)]
                   ELSE RangeKeys[IF Len(RangeKeys) > 1 THEN 2 ELSE 1],
         dim   |-> IF i = blank THEN "" ELSE DimNames[((i - 1) % Len(DimNames)) + 1],
         users |-> ((i * k) % 7) - 1,
         views |-> i]]

BreakdownReports ==
    { BreakdownReportOf(n, k, 1) : n \in {0, 1, MaxRows}, k \in {1, 3} }

----------------------------------------------------------------------------
(* Report processing of the concurrent fan-out scripts ("probe", "fanout"). *)

TopReferrers == 5
TopAuthors == 10

\* value || "0"
OrZero(v) == IF v = -1 THEN 0 ELSE v

\* arr.slice(0, n)
Take(s, n) == SubSeq(s, 1, IF Len(s) < n THEN Len(s) ELSE n)

RECURSIVE Reverse(_)
Reverse(s) == IF s = <<>> THEN <<>> ELSE Reverse(Tail(s)) \o <<Head(s)>>

\* Array.prototype.sort((a, b) => (+b.users || 0) - (+a.users || 0)): stable, descending
RECURSIVE InsertByUsersDesc(_, _)
InsertByUsersDesc(s, e) ==
    IF s = <<>> THEN <<e>>
    ELSE IF Head(s).users >= e.users THEN <<Head(s)>> \o InsertByUsersDesc(Tail(s), e)
    ELSE <<e>> \o s

RECURSIVE SortByUsersDesc(_)
SortByUsersDesc(s) ==
    IF s = <<>> THEN <<>>
    ELSE InsertByUsersDesc(SortByUsersDesc(SubSeq(s, 1, Len(s) - 1)), s[Len(s)])

DatesOf(report) == {report[i].date : i \in DOMAIN report}

\* rows of one date, in report order
RowsOfDate(report, d) == SelectSeq(report, LAMBDA r : r.date = d)

\* fetchDailyKPIs: map[d] = {date, metrics || "0", referrers: [], authors: []}
KpiRowToEntry(r) ==
    [date |-> r.date,
     totalUsers |-> OrZero(r.mv[1]), newUsers |-> OrZero(r.mv[2]),
     pageviews |-> OrZero(r.mv[3]), sessions |-> OrZero(r.mv[4]),
     bounceRate |-> OrZero(r.mv[5]), averageSessionDuration |-> OrZero(r.mv[6]),
     referrers |-> <<>>, authors |-> <<>>]

\* a later row of the same date overwrites an earlier one
LastRowOfDate(report, d) == LET rs == RowsOfDate(report, d) IN rs[Len(rs)]

fetchDailyKPIs(report) ==
    [d \in DatesOf(report) |-> KpiRowToEntry(LastRowOfDate(report, d))]

RefEntry(r) ==
    [source |-> IF r.dim = "" THEN "(not set)" ELSE r.dim, users |-> OrZero(r.users)]

AuthEntry(r) ==
    [author |-> IF r.dim = "" THEN "(not set)" ELSE r.dim,
     users |-> OrZero(r.users), views |-> OrZero(r.views)]

\* rows.map(r => ({source, users}))
RefEntries(rs) == [i \in 1..Len(rs) |-> RefEntry(rs[i])]

\* rows.map(r => ({author, users, views}))
AuthEntries(rs) == [i \in 1..Len(rs) |-> AuthEntry(rs[i])]

\* fetchReferrersPerDay: group by date, sort by users descending, keep the first 5
fetchReferrersPerDay(report) ==
    [d \in DatesOf(report) |->
        Take(SortByUsersDesc(RefEntries(RowsOfDate(report, d))), TopReferrers)]

\* the per-date ranking of fetchAuthorsPerDay: arr.sort(desc).reverse(), then slice(0, 10)
RankAuthors(arr) == Take(Reverse(SortByUsersDesc(arr)), TopAuthors)

\* grouping and ranking of fetchAuthorsPerDay over the rows it works on
AuthorsPerDayOf(report) ==
    [d \in DatesOf(report) |-> RankAuthors(AuthEntries(RowsOfDate(report, d)))]

\* (r.dimensionValues[1].value || "").trim() !== ""
TrimIsEmpty(v) == v \in {"", " "}

nonEmptyRows_Unfiltered(report) == report

nonEmptyRows(report) == SelectSeq(report, LAMBDA r : ~TrimIsEmpty(r.dim))

\* the author dimension candidates of the probing script
AUTHOR_DIM_CANDIDATES ==
    <<"preferred", "customEvent:authors", "customEvent:authorName",
      "customEvent:author", "customEvent:byline">>

----------------------------------------------------------------------------
(* main() of the concurrent fan-out scripts: Promise.all, merge, write.     *)

\* wall-clock instants of the fan-out runs
MergeNows == { At(2024, 3, 5, 23), At(2025, 1, 3, 12) }

\* new Date(d.getFullYear(), d.getMonth(), d.getDate() + 1): next local midnight
NextLocalDay(d, tzo) ==
    LET c == LocalFields(d, tzo) IN DaysFromCivil(c.y, c.m, c.d + 1) * 24 - tzo

\* yyyymmdd(d) / ymdCompact(d): compact key from the local fields
yyyymmdd(d, tzo) == Compact(LocalFields(d, tzo))

\* keys visited by: for (d = new Date(start); d <= end; d = next local midnight)
RECURSIVE MergeLoopKeys(_, _, _)
MergeLoopKeys(d, e, tzo) ==
    IF d <= e THEN <<yyyymmdd(d, tzo)>> \o MergeLoopKeys(NextLocalDay(d, tzo), e, tzo)
    ELSE <<>>

ZeroRow(key) ==
    [date |-> key, totalUsers |-> 0, newUsers |-> 0, pageviews |-> 0, sessions |-> 0,
     bounceRate |-> 0, averageSessionDuration |-> 0, referrers |-> <<>>, authors |-> <<>>]

\* map.get(key) || []
GetOrEmpty(m, key) == IF key \in DOMAIN m THEN m[key] ELSE <<>>

\* the merge iteration without the placeholder for a missing KPI row
MergeDay_NoPlaceholder(k, key, refs, auths) ==
    IF key \notin DOMAIN k THEN k
    ELSE [k EXCEPT ![key] = [@ EXCEPT !.referrers = GetOrEmpty(refs, key),
                                      !.authors = GetOrEmpty(auths, key)]]

\* one iteration of the merge loop: placeholder if the KPI row is missing, then
\* referrers and authors from the breakdown maps
MergeDay(k, key, refs, auths) ==
    LET base == IF key \in DOMAIN k THEN k[key] ELSE ZeroRow(key)
    IN [d \in DOMAIN k \cup {key} |->
           IF d = key
           THEN [base EXCEPT !.referrers = GetOrEmpty(refs, key),
                             !.authors = GetOrEmpty(auths, key)]
           ELSE k[d]]

RECURSIVE MergeAll(_, _, _, _)
MergeAll(k, keys, refs, auths) ==
    IF keys = <<>> THEN k
    ELSE MergeAll(MergeDay(k, Head(keys), refs, auths), Tail(keys), refs, auths)

SetMin(S) == CHOOSE x \in S : \A y \in S : x <= y

\* Object.values(kpis).sort((a, b) => a.date.localeCompare(b.date))
RECURSIVE ValuesByDate(_, _)
ValuesByDate(k, keys) ==
    IF keys = {} THEN <<>>
    ELSE LET m == SetMin(keys) IN <<k[m]>> \o ValuesByDate(k, keys \ {m})

AnyFailed == "failed" \in {kpiState, refState, authState}

\* Promise.all([fetchDailyKPIs(), fetchReferrersPerDay(), fetchAuthorsPerDay()]):
\* the three requests are issued
StartFanout ==
    /\ script \in {"probe", "fanout", "rest"} /\ pc = "resolved"
    /\ pc' = "fanout"
    /\ kpiState' = "pending" /\ refState' = "pending" /\ authState' = "pending"
    /\ authIdx' = 1
    /\ UNCHANGED <<script, runVars, probeLast, pageVars, seqVars, wexVars, dateVars, kpiReport, refReport, authReport, dataVars, outVars>>

\* a branch settles only while main() still awaits the join
Awaiting == pc = "fanout" /\ ~AnyFailed

\* in the REST script the fetchers return the response; main() maps it after the join
KpiFulfil ==
    /\ Awaiting /\ kpiState = "pending"
    /\ \E rep \in KpiReports :
          /\ kpiReport' = rep
          /\ kpis' = IF script = "rest" THEN kpis ELSE fetchDailyKPIs(rep)
    /\ kpiState' = "ok"
    /\ UNCHANGED <<script, runVars, probeLast, pageVars, seqVars, wexVars, pc, dateVars, refState, authState, authIdx, refReport,
                   authReport, refMap, authMap, outVars>>

KpiReject ==
    /\ Awaiting /\ kpiState = "pending"
    /\ kpiState' = "failed"
    /\ UNCHANGED <<script, runVars, probeLast, pageVars, seqVars, wexVars, pc, dateVars, refState, authState, authIdx, kpiReport,
                   refReport, authReport, dataVars, outVars>>

\* the referrer fetcher as if it filled a Map it shared with the author fetcher
RefFulfil_SharedMap ==
    /\ Awaiting /\ refState = "pending"
    /\ \E rep \in BreakdownReports :
          /\ refReport' = rep
          /\ refMap' = IF script \in {"rest", "last7"} THEN refMap ELSE fetchReferrersPerDay(rep)
    /\ authMap' = refMap'
    /\ refState' = "ok"
    /\ UNCHANGED <<script, runVars, probeLast, pageVars, seqVars, wexVars, pc, dateVars, kpiState, authState, authIdx, kpiReport,
                   authReport, kpis, outVars>>

RefFulfil ==
    /\ Awaiting /\ refState = "pending"
    /\ \E rep \in BreakdownReports :
          /\ refReport' = rep
          /\ refMap' = IF script \in {"rest", "last7"} THEN refMap ELSE fetchReferrersPerDay(rep)
    /\ refState' = "ok"
    /\ UNCHANGED <<script, runVars, probeLast, pageVars, seqVars, wexVars, pc, dateVars, kpiState, authState, authIdx, kpiReport,
                   authReport, kpis, authMap, outVars>>

RefReject ==
    /\ Awaiting /\ refState = "pending"
    /\ refState' = "failed"
    /\ UNCHANGED <<script, runVars, probeLast, pageVars, seqVars, wexVars, pc, dateVars, kpiState, authState, authIdx, kpiReport,
                   refReport, authReport, dataVars, outVars>>

\* fetchAuthorsPerDay without probing: one report on AUTHORS_DIM, every row grouped
\* (the REST script's fetchAuthors returns the response as it is)
AuthFulfil ==
    /\ script \in {"fanout", "rest", "last7"} /\ Awaiting /\ authState = "pending"
    /\ \E rep \in BreakdownReports :
          /\ authReport' = rep
          /\ authMap' = IF script \in {"rest", "last7"} THEN authMap ELSE AuthorsPerDayOf(rep)
    /\ authState' = "ok"
    /\ UNCHANGED <<script, runVars, probeLast, pageVars, seqVars, wexVars, pc, dateVars, kpiState, refState, authIdx, kpiReport,
                   refReport, kpis, refMap, outVars>>

AuthReject ==
    /\ script \in {"fanout", "rest", "last7"} /\ Awaiting /\ authState = "pending"
    /\ authState' = "failed"
    /\ UNCHANGED <<script, runVars, probeLast, pageVars, seqVars, wexVars, pc, dateVars, kpiState, refState, authIdx, kpiReport,
                   refReport, authReport, dataVars, outVars>>

\* reports the probe's candidates can be answered with: the breakdown reports and
\* one with exactly three non-empty rows
ProbeReports == BreakdownReports \cup { BreakdownReportOf(4, 1, 1) }

\* probing fetchAuthorsPerDay: the report on candidate authIdx has a non-empty row;
\* the Map built from its non-empty rows is returned
AuthProbeAccept ==
    /\ script = "probe" /\ Awaiting /\ authState = "pending"
    /\ \E rep \in ProbeReports :
          /\ Len(nonEmptyRows(rep)) > 0
          /\ authReport' = rep
          /\ authMap' = AuthorsPerDayOf(nonEmptyRows(rep))
    /\ authState' = "ok"
    /\ probeLast' = "rows"
    /\ UNCHANGED <<script, runVars, pageVars, seqVars, wexVars, pc, dateVars, kpiState, refState, authIdx, kpiReport,
                   refReport, kpis, refMap, outVars>>

ProbeStep_Rethrow(failed, idx) ==
    IF failed THEN "raise"
    ELSE IF idx < Len(AUTHOR_DIM_CANDIDATES) THEN "next" ELSE "empty"

\* what the for loop does after an attempt without non-empty rows: the catch
\* swallows a failure; the next candidate is tried, or after the last one the
\* empty Map is returned
ProbeStep(failed, idx) ==
    IF idx < Len(AUTHOR_DIM_CANDIDATES) THEN "next" ELSE "empty"

\* probing fetchAuthorsPerDay: the attempt raised (caught and logged) or its report
\* has no non-empty row
AuthProbeNext ==
    /\ script = "probe" /\ Awaiting /\ authState = "pending"
    /\ \E failed \in BOOLEAN :
          /\ failed \/ \E rep \in ProbeReports : Len(nonEmptyRows(rep)) = 0
          /\ probeLast' = IF failed THEN "failed" ELSE "empty"
          /\ CASE ProbeStep(failed, authIdx) = "next" ->
                      authIdx' = authIdx + 1 /\ UNCHANGED <<authState, authMap>>
               [] ProbeStep(failed, authIdx) = "empty" ->
                      authState' = "ok" /\ authMap' = EmptyMap /\ UNCHANGED authIdx
               [] OTHER ->
                      authState' = "failed" /\ UNCHANGED <<authIdx, authMap>>
    /\ UNCHANGED <<script, runVars, pageVars, seqVars, wexVars, pc, dateVars, kpiState, refState, kpiReport, refReport,
                   authReport, kpis, refMap, outVars>>

\* all three fulfilled: merge loop, sort, write, normal exit
JoinAndWrite ==
    /\ script \in {"probe", "fanout"} /\ pc = "fanout"
    /\ kpiState = "ok" /\ refState = "ok" /\ authState = "ok"
    /\ kpis' = MergeAll(kpis, MergeLoopKeys(startDate, endDate, tz), refMap, authMap)
    /\ rows' = ValuesByDate(kpis', DOMAIN kpis')
    /\ written' = TRUE
    /\ exitCode' = 0
    /\ pc' = "done"
    /\ UNCHANGED <<script, runVars, probeLast, pageVars, seqVars, wexVars, dateVars, fetchVars, refMap, authMap>>

\* a branch rejected: Promise.all rejects, catch logs and calls process.exit(1)
JoinReject ==
    /\ pc = "fanout" /\ AnyFailed
    /\ exitCode' = 1
    /\ pc' = "done"
    /\ UNCHANGED <<script, runVars, probeLast, pageVars, seqVars, wexVars, dateVars, fetchVars, dataVars, rows, written>>

InitMerge ==
    /\ script \in {"probe", "fanout"}
    /\ pc = "start"
    /\ now \in MergeNows
    /\ tz \in {0, 9}
    /\ DAYS = 7
    /\ startDate = 0 /\ endDate = 0
    /\ startYMD = NoDate /\ endYMD = NoDate
    /\ dayList = <<>> /\ reqKeys = <<>>
    /\ dimAuthor = FALSE /\ dimSection = FALSE
    /\ GA4Idle
    /\ propertyId \in BOOLEAN /\ requests = <<>> /\ doc = NoDoc /\ prevDoc = NoDoc /\ mock = <<>>
    /\ values = <<>> /\ sheetData = <<>>
    /\ pageParam = TRUE
    /\ PagesIdle

NextMerge ==
    \/ MissingProperty
    \/ ResolveLocal
    \/ StartFanout
    \/ KpiFulfil \/ KpiReject
    \/ RefFulfil \/ RefReject
    \/ AuthFulfil \/ AuthReject
    \/ AuthProbeAccept \/ AuthProbeNext
    \/ JoinAndWrite \/ JoinReject

SpecMerge == InitMerge /\ [][NextMerge]_vars

RowDates == {rows[i].date : i \in DOMAIN rows}

IsZeroRow(r) ==
    /\ r.totalUsers = 0 /\ r.newUsers = 0 /\ r.pageviews = 0 /\ r.sessions = 0
    /\ r.bounceRate = 0 /\ r.averageSessionDuration = 0

\* C1: whatever KPI rows upstream returned, the written rows hold exactly one
\* entry for each day of the requested range, no date appears twice, and a day
\* the upstream omitted is present as a zero-valued row.
C1_OneRowPerRangeDay ==
    written /\ script \in {"probe", "fanout"} =>
        /\ \A d \in RangeKeySet : Cardinality({i \in DOMAIN rows : rows[i].date = d}) = 1
        /\ \A i, j \in DOMAIN rows : rows[i].date = rows[j].date => i = j
        /\ \A i \in DOMAIN rows :
              rows[i].date \in RangeKeySet \ DatesOf(kpiReport) => IsZeroRow(rows[i])

\* the document was written although the KPI report omitted a day of the range
C1_Witness ==
    /\ written /\ script \in {"probe", "fanout"}
    /\ RangeKeySet \ DatesOf(kpiReport) # {}
    /\ Len(kpiReport) > 0

\* C4: when the KPI fetch succeeded and the referrer fetch failed, the join
\* still completes with an empty result for the failed branch: every day of the
\* range is written with referrers = [] and the process exits with code 0.
C4_FailedReferrerStillWrites ==
    pc = "done" /\ script \in {"probe", "fanout"} /\ kpiState = "ok" /\ refState = "failed" =>
        /\ exitCode = 0
        /\ written
        /\ \A d \in RangeKeySet :
              \E i \in DOMAIN rows : rows[i].date = d /\ rows[i].referrers = <<>>

\* number of occurrences of entry e in list s
Count(s, e) == Cardinality({i \in DOMAIN s : s[i] = e})

Entries(s) == {s[i] : i \in DOMAIN s}

\* kept is ordered by users descending and is a top-cap selection of group
IsTopByUsers(kept, group, cap) ==
    /\ \A i, j \in DOMAIN kept : i < j => kept[i].users >= kept[j].users
    /\ Len(kept) = (IF Len(group) < cap THEN Len(group) ELSE cap)
    /\ \A e \in Entries(kept) : Count(kept, e) <= Count(group, e)
    /\ \A e \in Entries(group) :
          Count(kept, e) < Count(group, e) =>
              \A i \in DOMAIN kept : e.users <= kept[i].users

\* the rows fetchAuthorsPerDay groups: the non-empty ones when probing
AuthGroupedRows == IF script = "probe" THEN nonEmptyRows(authReport) ELSE authReport

ReferrersAreTop5 ==
    refState = "ok" =>
        \A d \in DOMAIN refMap :
            IsTopByUsers(refMap[d], RefEntries(RowsOfDate(refReport, d)), TopReferrers)

AuthorsAreTop10 ==
    authState = "ok" =>
        \A d \in DOMAIN authMap :
            IsTopByUsers(authMap[d], AuthEntries(RowsOfDate(AuthGroupedRows, d)),
                         TopAuthors)

\* C6: for every date, the list of fetchReferrersPerDay (cap 5) and of
\* fetchAuthorsPerDay (cap 10) is ordered by users descending and holds the
\* entries with the highest users: no entry left out has strictly more users
\* than an entry kept.
C6_BreakdownsAreTopNByUsers == ReferrersAreTop5 /\ AuthorsAreTop10

----------------------------------------------------------------------------
(* Scripts that build the rows directly from the KPI report: the REST       *)
(* script ("rest") and the yesterday-only script ("yesterday_env").         *)

RestTopReferrers == 10
RestTopAuthors == 20

\* obj[field] = value on an object that may not have the field yet
SetField(obj, field, value) ==
    [f \in DOMAIN obj \cup {field} |-> IF f = field THEN value ELSE obj[f]]

\* rows.sort((a, b) => a.date.localeCompare(b.date)) on an array: stable, ascending
RECURSIVE InsertByDateAsc(_, _)
InsertByDateAsc(s, e) ==
    IF s = <<>> THEN <<e>>
    ELSE IF Head(s).date <= e.date THEN <<Head(s)>> \o InsertByDateAsc(Tail(s), e)
    ELSE <<e>> \o s

RECURSIVE SortByDateAsc(_)
SortByDateAsc(s) ==
    IF s = <<>> THEN <<>>
    ELSE InsertByDateAsc(SortByDateAsc(SubSeq(s, 1, Len(s) - 1)), s[Len(s)])

RestRefEntry(r) ==
    [source |-> IF r.dim = "" THEN "(unknown)" ELSE r.dim, users |-> OrZero(r.users)]

RestAuthEntry(r) ==
    [author |-> IF r.dim = "" THEN "(unknown)" ELSE r.dim,
     users |-> OrZero(r.users), views |-> OrZero(r.views)]

RestRefEntries(rs) == [i \in 1..Len(rs) |-> RestRefEntry(rs[i])]

RestAuthEntries(rs) == [i \in 1..Len(rs) |-> RestAuthEntry(rs[i])]

\* the row main() of the REST script builds for one KPI report row
RestRow(r) ==
    [date |-> r.date,
     totalUsers |-> OrZero(r.mv[1]), newUsers |-> OrZero(r.mv[2]),
     pageviews |-> OrZero(r.mv[3]), sessions |-> OrZero(r.mv[4]),
     bounceRate |-> OrZero(r.mv[5]), averageSessionDuration |-> OrZero(r.mv[6]),
     referrers |-> Take(SortByUsersDesc(RestRefEntries(RowsOfDate(refReport, r.date))),
                        RestTopReferrers),
     authors |-> Take(SortByUsersDesc(RestAuthEntries(RowsOfDate(authReport, r.date))),
                      RestTopAuthors)]

\* REST script, all three reports fulfilled: kpiRows.map(...).sort(...), write
ComposeRest ==
    /\ script = "rest" /\ pc = "fanout"
    /\ kpiState = "ok" /\ refState = "ok" /\ authState = "ok"
    /\ rows' = SortByDateAsc([i \in 1..Len(kpiReport) |-> RestRow(kpiReport[i])])
    /\ written' = TRUE
    /\ exitCode' = 0
    /\ pc' = "done"
    /\ UNCHANGED <<script, runVars, probeLast, pageVars, seqVars, wexVars, dateVars, fetchVars, dataVars>>

\* num(row, idx): metricValues[idx] ?? dimensionValues[idx] ?? "0", as a finite
\* number or 0; mv holds the metric values, the dimension list is shorter than idx
num(mv, idx) == IF idx + 1 \in DOMAIN mv THEN OrZero(mv[idx + 1]) ELSE 0

\* val(row, 0) on a breakdown row: the dimension value, else the first metric
\* value, else ""
val0(dim, mv) ==
    IF dim # "" THEN dim ELSE IF mv[1] # -1 THEN ToString(mv[1]) ELSE ""

\* the row of the yesterday-only script for one KPI report row
YesterdayRow(r) ==
    [date |-> r.date,
     totalUsers |-> num(r.mv, 1), newUsers |-> num(r.mv, 2), pageviews |-> num(r.mv, 3),
     sessions |-> num(r.mv, 4), bounceRate |-> num(r.mv, 5),
     averageSessionDuration |-> num(r.mv, 6)]

YesterdayRefEntry(r) == [source |-> val0(r.dim, <<r.users>>), users |-> num(<<r.users>>, 1)]

YesterdayAuthEntry(r) ==
    [author |-> IF val0(r.dim, <<r.users, r.views>>) = "" THEN "(not set)"
                ELSE val0(r.dim, <<r.users, r.views>>),
     users |-> num(<<r.users, r.views>>, 1),
     views |-> num(<<r.users, r.views>>, 2)]

\* .filter((a) => a.author && a.author !== "(not set)")
KeepAuthor(a) == a.author # "" /\ a.author # "(not set)"

\* rows.find((r) => r.date === yestYMD), then last.referrers = ..., last.authors = ...
AttachToYesterday(rs, key, refs, auths) ==
    LET hits == {i \in DOMAIN rs : rs[i].date = key}
    IN IF hits = {} THEN rs
       ELSE [rs EXCEPT ![SetMin(hits)] =
                SetField(SetField(@, "referrers", refs), "authors", auths)]

\* yesterday-only script: the daily report resolved; an empty report writes the stub
YesterdayKpiFulfil ==
    /\ script = "yesterday_env" /\ pc = "resolved"
    /\ \E rep \in KpiReports :
          /\ kpiReport' = rep
          /\ rows' = [i \in 1..Len(rep) |-> YesterdayRow(rep[i])]
          /\ IF Len(rep) = 0
             THEN written' = TRUE /\ exitCode' = 0 /\ pc' = "done"
             ELSE pc' = "referrers" /\ UNCHANGED <<written, exitCode>>
    /\ kpiState' = "ok"
    /\ UNCHANGED <<script, runVars, probeLast, pageVars, seqVars, wexVars, dateVars, refState, authState, authIdx, refReport, authReport,
                   dataVars>>

\* yesterday-only script: the daily report rejected; main().catch exits 1
YesterdayKpiReject ==
    /\ script = "yesterday_env" /\ pc = "resolved"
    /\ kpiState' = "failed"
    /\ exitCode' = 1
    /\ pc' = "done"
    /\ UNCHANGED <<script, runVars, probeLast, pageVars, seqVars, wexVars, dateVars, refState, authState, authIdx, kpiReport, refReport,
                   authReport, dataVars, rows, written>>

\* yesterday-only script: referrer report settled; .catch(() => [null]) gives no rows
YesterdayReferrers ==
    /\ script = "yesterday_env" /\ pc = "referrers"
    /\ \E failed \in BOOLEAN, rep \in BreakdownReports :
          /\ refState' = IF failed THEN "failed" ELSE "ok"
          /\ refReport' = IF failed THEN <<>> ELSE rep
    /\ pc' = "authors"
    /\ UNCHANGED <<script, runVars, probeLast, pageVars, seqVars, wexVars, dateVars, kpiState, authState, authIdx, kpiReport, authReport,
                   dataVars, outVars>>

\* yesterday-only script: author report settled (a failure is caught), breakdowns
\* attached to yesterday's row, document written
YesterdayAuthors ==
    /\ script = "yesterday_env" /\ pc = "authors"
    /\ \E failed \in BOOLEAN, rep \in BreakdownReports :
          /\ authState' = IF failed THEN "failed" ELSE "ok"
          /\ authReport' = IF failed THEN <<>> ELSE rep
    /\ LET referrers == [i \in 1..Len(refReport) |-> YesterdayRefEntry(refReport[i])]
           authors == SelectSeq([i \in 1..Len(authReport') |-> YesterdayAuthEntry(authReport'[i])],
                                KeepAuthor)
       IN rows' = AttachToYesterday(rows, Compact(endYMD), referrers, authors)
    /\ written' = TRUE
    /\ exitCode' = 0
    /\ pc' = "done"
    /\ UNCHANGED <<script, runVars, probeLast, pageVars, seqVars, wexVars, dateVars, kpiState, refState, authIdx, kpiReport, refReport,
                   dataVars>>

\* wall-clock instants and windows of the direct scripts
DirectNows == { At(2024, 3, 1, 2) }

InitDirect ==
    /\ script \in {"rest", "yesterday_env"}
    /\ pc = "start"
    /\ now \in DirectNows
    /\ tz \in {0, 9}
    /\ DAYS \in {1, 3, MaxDays}
    /\ startDate = 0 /\ endDate = 0
    /\ startYMD = NoDate /\ endYMD = NoDate
    /\ dayList = <<>> /\ reqKeys = <<>>
    /\ dimAuthor = FALSE /\ dimSection = FALSE
    /\ GA4Idle
    /\ propertyId \in BOOLEAN /\ requests = <<>> /\ doc = NoDoc /\ prevDoc = NoDoc /\ mock = <<>>
    /\ values = <<>> /\ sheetData = <<>>
    /\ pageParam = TRUE
    /\ PagesIdle

NextDirect ==
    \/ MissingProperty
    \/ ResolveLocal \/ ResolveYesterdayEnv
    \/ StartFanout
    \/ KpiFulfil \/ KpiReject
    \/ RefFulfil \/ RefReject
    \/ AuthFulfil \/ AuthReject
    \/ ComposeRest \/ JoinReject
    \/ YesterdayKpiFulfil \/ YesterdayKpiReject
    \/ YesterdayReferrers \/ YesterdayAuthors

SpecDirect == InitDirect /\ [][NextDirect]_vars

\* C2: the written rows enumerate every day of the interval [start, end] even
\* if the upstream report omits days, so the number of rows equals DAYS.
C2_RowsEnumerateEveryDay ==
    written /\ script \in {"rest", "yesterday_env"} =>
        /\ Len(rows) = DAYS
        /\ \A d \in RangeKeySet : \E i \in DOMAIN rows : rows[i].date = d

----------------------------------------------------------------------------
(* The per-day sequential script ("perday_seq"): KPI report, then for each  *)
(* day of the range a referrer fetch and, when configured, an author and a  *)
(* section fetch; every fetch is awaited before the next is issued.         *)

MaxFailures == 2
SeqTopReferrers == 25
SeqTopDim == 50

\* the row built for one KPI report row: no breakdown fields yet
SeqRow(r) ==
    [date |-> r.date,
     totalUsers |-> OrZero(r.mv[1]), newUsers |-> OrZero(r.mv[2]),
     sessions |-> OrZero(r.mv[3]), pageviews |-> OrZero(r.mv[4]),
     bounceRate |-> OrZero(r.mv[5]), averageSessionDuration |-> OrZero(r.mv[6])]

\* for (const r of kpiResp.rows) rowsByDate[d] = {...}
rowsByDateOf(report) == [d \in DatesOf(report) |-> SeqRow(LastRowOfDate(report, d))]

SeqZeroRow(key) ==
    [date |-> key, totalUsers |-> 0, newUsers |-> 0, sessions |-> 0, pageviews |-> 0,
     bounceRate |-> 0, averageSessionDuration |-> 0]

\* if (!rowsByDate[dayKey]) rowsByDate[dayKey] = {zeros}
FillMissing(k, key) ==
    IF key \in DOMAIN k THEN k
    ELSE [d \in DOMAIN k \cup {key} |-> IF d = key THEN SeqZeroRow(key) ELSE k[d]]

\* the single-day breakdown report upstream holds for a day
DayReportOf(key) == BreakdownReportOf(key % 4, 3, 1)

\* fetchReferrers: rows mapped to {source, users}, empty sources dropped
SeqReferrersOf(report) ==
    SelectSeq([i \in 1..Len(report) |->
                  [source |-> report[i].dim, users |-> OrZero(report[i].users)]],
              LAMBDA x : x.source # "")

\* fetchDim: rows mapped to {key, users, views}, empty keys dropped
fetchDim(report) ==
    SelectSeq([i \in 1..Len(report) |->
                  [key |-> report[i].dim, users |-> OrZero(report[i].users),
                   views |-> OrZero(report[i].views)]],
              LAMBDA x : x.key # "")

AsAuthors(a) == [i \in 1..Len(a) |-> [author |-> a[i].key, users |-> a[i].users, views |-> a[i].views]]

AsSections(a) == [i \in 1..Len(a) |-> [section |-> a[i].key, users |-> a[i].users, views |-> a[i].views]]

\* rowsByDate[dayKey][field] = list
SetDayField(k, key, field, list) == [k EXCEPT ![key] = SetField(@, field, list)]

\* what main() does after the fetch of kind step ("ref", "auth", "sec") of the
\* current day settled with rowsByDate = k: the next fetch of the day, the next
\* day (placeholder first), or after the last day the sort and the write
SeqContinue(step, k) ==
    IF step = "ref" /\ dimAuthor
    THEN /\ pc' = "day_auth" /\ kpis' = k /\ UNCHANGED <<dayIdx, outVars>>
    ELSE IF step \in {"ref", "auth"} /\ dimSection
    THEN /\ pc' = "day_sec" /\ kpis' = k /\ UNCHANGED <<dayIdx, outVars>>
    ELSE IF dayIdx < Len(dayList)
    THEN /\ pc' = "day_ref" /\ dayIdx' = dayIdx + 1
         /\ kpis' = FillMissing(k, dayList[dayIdx + 1])
         /\ UNCHANGED outVars
    ELSE /\ pc' = "done" /\ kpis' = k
         /\ rows' = ValuesByDate(k, DOMAIN k)
         /\ written' = TRUE /\ exitCode' = 0
         /\ UNCHANGED dayIdx

\* KPI reports of the sequential runs: complete, one day omitted, a row past the
\* range, and no rows
SeqKpiReports ==
    { KpiReportOf({}, "none"), KpiReportOf({RangeKeys[3]}, "none"),
      KpiReportOf({}, "stray"), KpiReportOf(RangeKeySet, "none") }

\* the KPI report resolved: rowsByDate built, the loop enters the first day
SeqKpiFulfil ==
    /\ script = "perday_seq" /\ pc = "resolved"
    /\ \E rep \in SeqKpiReports :
          /\ kpiReport' = rep
          /\ kpis' = FillMissing(rowsByDateOf(rep), dayList[1])
    /\ kpiState' = "ok"
    /\ dayIdx' = 1
    /\ pc' = "day_ref"
    /\ UNCHANGED <<script, runVars, probeLast, pageVars, wexVars, dateVars, refState, authState, authIdx, refReport, authReport,
                   refMap, authMap, outVars, dimAuthor, dimSection, failures>>

\* the KPI report rejected: the catch around main's body exits 1
SeqKpiReject ==
    /\ script = "perday_seq" /\ pc = "resolved"
    /\ kpiState' = "failed"
    /\ exitCode' = 1
    /\ pc' = "done"
    /\ UNCHANGED <<script, runVars, probeLast, pageVars, wexVars, dateVars, refState, authState, authIdx, kpiReport, refReport,
                   authReport, dataVars, rows, written, seqVars>>

\* a per-day fetch whose failure reaches the outer catch (what the try/catch
\* around each fetch prevents)
SeqFetch_FailureAborts(step, field, list) ==
    /\ script = "perday_seq"
    /\ requests' = Append(requests, [kind |-> step, day |-> dayList[dayIdx]])
    /\ \E ok \in BOOLEAN :
          /\ ~ok => failures < MaxFailures
          /\ failures' = IF ok THEN failures ELSE failures + 1
          /\ IF ok
             THEN SeqContinue(step, SetDayField(kpis, dayList[dayIdx], field, list))
             ELSE /\ pc' = "done" /\ exitCode' = 1
                  /\ UNCHANGED <<kpis, dayIdx, rows, written>>
    /\ UNCHANGED <<script, propertyId, pageParam, doc, prevDoc, mock, sheetVars, probeLast,
                   pageVars, wexVars, dateVars, fetchVars, refMap, authMap, dimAuthor,
                   dimSection>>

\* one per-day fetch is issued and settles: on success the field is set from the
\* day's report, on failure a warning is logged and the field is left as it was
SeqFetch(step, field, list) ==
    /\ script = "perday_seq"
    /\ requests' = Append(requests, [kind |-> step, day |-> dayList[dayIdx]])
    /\ \E ok \in BOOLEAN :
          /\ ~ok => failures < MaxFailures
          /\ failures' = IF ok THEN failures ELSE failures + 1
          /\ SeqContinue(step,
                IF ok THEN SetDayField(kpis, dayList[dayIdx], field, list) ELSE kpis)
    /\ UNCHANGED <<script, propertyId, pageParam, doc, prevDoc, mock, sheetVars, probeLast,
                   pageVars, wexVars, dateVars, fetchVars, refMap, authMap, dimAuthor,
                   dimSection>>

SeqReferrers ==
    /\ pc = "day_ref"
    /\ SeqFetch("ref", "referrers",
                Take(SeqReferrersOf(DayReportOf(dayList[dayIdx])), SeqTopReferrers))

SeqAuthors ==
    /\ pc = "day_auth"
    /\ SeqFetch("auth", "authors",
                AsAuthors(Take(fetchDim(DayReportOf(dayList[dayIdx])), SeqTopDim)))

SeqSections ==
    /\ pc = "day_sec"
    /\ SeqFetch("sec", "sections",
                AsSections(Take(fetchDim(DayReportOf(dayList[dayIdx] + 1)), SeqTopDim)))

SeqNows == { At(2024, 3, 1, 2), At(2025, 1, 3, 12) }

InitSeq ==
    /\ script = "perday_seq"
    /\ pc = "start"
    /\ now \in SeqNows
    /\ tz = 0
    /\ DAYS = 7
    /\ startDate = 0 /\ endDate = 0
    /\ startYMD = NoDate /\ endYMD = NoDate
    /\ dayList = <<>> /\ reqKeys = <<>>
    /\ dimAuthor \in BOOLEAN /\ dimSection \in BOOLEAN
    /\ GA4Idle
    /\ propertyId \in BOOLEAN /\ requests = <<>> /\ doc = NoDoc /\ prevDoc = NoDoc /\ mock = <<>>
    /\ values = <<>> /\ sheetData = <<>>
    /\ pageParam = TRUE
    /\ PagesIdle

NextSeq ==
    \/ MissingProperty
    \/ ResolvePerDaySeq
    \/ SeqKpiFulfil \/ SeqKpiReject
    \/ SeqReferrers \/ SeqAuthors \/ SeqSections

SpecSeq == InitSeq /\ [][NextSeq]_vars

\* C3: after the day loop every row of the output has a referrers field and an
\* authors field that are lists (possibly empty), never absent, whatever
\* fetches failed and whether or not an author dimension is configured.
C3_BreakdownFieldsAlwaysPresent ==
    written /\ script = "perday_seq" =>
        \A i \in DOMAIN rows : {"referrers", "authors"} \subseteq DOMAIN rows[i]

----------------------------------------------------------------------------
(* The topic fetchers.  "wex_generic" is the generic JSON fetcher (items     *)
(* normalized by normalizeTags, topics folded in main), "wex_wp" the         *)
(* WordPress fetcher (tags from extractTerms, topics by aggregateTopics).    *)
(* A tag name is a sequence of one-character strings so that trim() and      *)
(* split(',') are computed; a title or a section is a string, "" when the    *)
(* item has none.                                                            *)

MaxArticles == 4
SampleCap == 3

TagA == <<"a">>
TagB == <<"b">>
TagC == <<"c">>

RECURSIVE TrimStart(_)
TrimStart(str) ==
    IF str # <<>> /\ Head(str) = " " THEN TrimStart(Tail(str)) ELSE str

\* String.prototype.trim
Trim(str) == Reverse(TrimStart(Reverse(TrimStart(str))))

\* String.prototype.split(','): the pieces of str between commas
RECURSIVE SplitFrom(_, _)
SplitFrom(str, cur) ==
    IF str = <<>> THEN <<cur>>
    ELSE IF Head(str) = "," THEN <<cur>> \o SplitFrom(Tail(str), <<>>)
    ELSE SplitFrom(Tail(str), Append(cur, Head(str)))

Split(str) == SplitFrom(str, <<>>)

\* .map(t => t.trim()).filter(Boolean)
TrimAll(list) ==
    SelectSeq([i \in 1..Len(list) |-> Trim(list[i])], LAMBDA t : t # <<>>)

\* a null element of a tags array (no string: strings are sequences of
\* single characters)
NullEl == <<"null">>

\* String(t)
StringOf(t) == IF t = NullEl THEN <<"n", "u", "l", "l">> ELSE t

\* normalizeTags: nothing, an array of names, or one comma-separated string
normalizeTags(tags) ==
    IF tags.kind = "none" THEN <<>>
    ELSE IF tags.kind = "array" THEN TrimAll([i \in 1..Len(tags.v) |-> StringOf(tags.v[i])])
    ELSE TrimAll(Split(tags.v))

\* an element of an authors array: a string, an object with a name, an object
\* without one, or null
Str(v) == [kind |-> "string", v |-> v]
Named(v) == [kind |-> "named", v |-> v]
Nameless == [kind |-> "object", v |-> <<>>]
NullAuthor == [kind |-> "null", v |-> <<>>]

\* (a?.name ?? a).toString() for an element that is not null
AuthorString(a) == IF a.kind = "object" THEN <<"[object Object]">> ELSE a.v

\* normalizeAuthors raises: null.toString() on a null element of the array
AuthorsRaise(authors) ==
    authors.kind = "array" /\ \E i \in DOMAIN authors.v : authors.v[i].kind = "null"

\* normalizeAuthors: nothing, an array of names or objects, or one
\* comma-separated string
normalizeAuthors(authors) ==
    IF authors.kind = "none" THEN <<>>
    ELSE IF authors.kind = "array"
    THEN [i \in 1..Len(authors.v) |-> AuthorString(authors.v[i])]
    ELSE TrimAll(Split(authors.v))

\* it[k], "" (falsy) when the item has no such field
Get(it, k) == IF k \in DOMAIN it THEN it[k] ELSE ""

\* it.tags / it.authors, nothing when the item has no such field
GetList(it, k) == IF k \in DOMAIN it THEN it[k] ELSE [kind |-> "none", v |-> <<>>]

\* a || b for strings
OrStr(a, b) == IF a # "" THEN a ELSE b

\* an item that is null instead of an object
NullItem == [null |-> TRUE]

\* normalizing the item raises: a property read on null, or normalizeAuthors
ItemRaises(it) == "null" \in DOMAIN it \/ AuthorsRaise(GetList(it, "authors"))

NormalizeItem_NoChannel(it) ==
    [title |-> OrStr(Get(it, "title"), OrStr(Get(it, "headline"), "")),
     slug |-> OrStr(Get(it, "slug"), OrStr(Get(it, "id"), "")),
     publishedAt |-> OrStr(Get(it, "publishedAt"),
                           OrStr(Get(it, "published_at"), OrStr(Get(it, "date"), ""))),
     section |-> OrStr(Get(it, "section"), ""),
     authors |-> normalizeAuthors(GetList(it, "authors")),
     tags |-> normalizeTags(GetList(it, "tags"))]

\* all.push({title, slug, publishedAt, section, authors, tags}) of the generic
\* fetchers
NormalizeItem(it) ==
    [title |-> OrStr(Get(it, "title"), OrStr(Get(it, "headline"), "")),
     slug |-> OrStr(Get(it, "slug"), OrStr(Get(it, "id"), "")),
     publishedAt |-> OrStr(Get(it, "publishedAt"),
                           OrStr(Get(it, "published_at"), OrStr(Get(it, "date"), ""))),
     section |-> OrStr(Get(it, "section"), OrStr(Get(it, "channel"), "")),
     authors |-> normalizeAuthors(GetList(it, "authors")),
     tags |-> normalizeTags(GetList(it, "tags"))]

\* extractTerms: names of the post_tag and category terms that have a name
extractTerms(it) ==
    LET kept == SelectSeq(it.terms,
                    LAMBDA t : t.taxonomy \in {"post_tag", "category"} /\ t.name # <<>>)
    IN  [i \in 1..Len(kept) |-> kept[i].name]

\* all.push({title, tags}) of the WordPress fetcher
WpArticle(it) == [title |-> it.title, tags |-> extractTerms(it)]

HasMember(list, x) == \E i \in DOMAIN list : list[i] = x

AddSample_Uncapped(st, title) ==
    IF title # "" /\ ~HasMember(st, title) THEN Append(st, title) ELSE st

\* if (sampleTitles.size < 3 && a.title) sampleTitles.add(a.title)
AddSample(st, title) ==
    IF Len(st) < SampleCap /\ title # "" /\ ~HasMember(st, title)
    THEN Append(st, title) ELSE st

\* if (a.section) sections.add(a.section)
AddSection(ss, section) ==
    IF section # "" /\ ~HasMember(ss, section) THEN Append(ss, section) ELSE ss

\* position of key in the Map (kept in insertion order), 0 when absent
IndexOfName(by, key) ==
    IF \E i \in DOMAIN by : by[i].name = key
    THEN CHOOSE i \in DOMAIN by : by[i].name = key
    ELSE 0

\* byTag.set(key, obj)
Put(by, key, obj) ==
    IF IndexOfName(by, key) = 0 THEN Append(by, obj)
    ELSE [by EXCEPT ![IndexOfName(by, key)] = obj]

NewTopic(key) == [name |-> key, count |-> 0, sampleTitles |-> <<>>, sections |-> <<>>]

Bump_CountOnce(obj, art) ==
    [obj EXCEPT !.count = 1,
                !.sampleTitles = AddSample(@, art.title),
                !.sections = AddSection(@, art.section)]

\* obj.count += 1; sample title; section
Bump(obj, art) ==
    [obj EXCEPT !.count = @ + 1,
                !.sampleTitles = AddSample(@, art.title),
                !.sections = AddSection(@, art.section)]

\* for (const t of a.tags) of the generic fetcher: no tag is skipped
RECURSIVE FoldTags(_, _, _)
FoldTags(by, art, tags) ==
    IF tags = <<>> THEN by
    ELSE LET key == Trim(Head(tags))
             i   == IndexOfName(by, key)
             obj == IF i = 0 THEN NewTopic(key) ELSE by[i]
         IN  FoldTags(Put(by, key, Bump(obj, art)), art, Tail(tags))

RECURSIVE FoldArticles(_, _)
FoldArticles(by, arts) ==
    IF arts = <<>> THEN by
    ELSE FoldArticles(FoldTags(by, Head(arts), Head(arts).tags), Tail(arts))

NewWpTopic(k) == [name |-> k, count |-> 0, sampleTitles |-> <<>>]

\* cur.count += 1; sample title
BumpWp(cur, art) ==
    [cur EXCEPT !.count = @ + 1, !.sampleTitles = AddSample(@, art.title)]

\* for (const n of a.tags) of aggregateTopics: blank names are skipped
RECURSIVE FoldNames(_, _, _)
FoldNames(by, art, names) ==
    IF names = <<>> THEN by
    ELSE LET k   == Trim(Head(names))
             i   == IndexOfName(by, k)
             cur == IF i = 0 THEN NewWpTopic(k) ELSE by[i]
         IN  IF k = <<>> THEN FoldNames(by, art, Tail(names))
             ELSE FoldNames(Put(by, k, BumpWp(cur, art)), art, Tail(names))

RECURSIVE FoldWpArticles(_, _)
FoldWpArticles(by, arts) ==
    IF arts = <<>> THEN by
    ELSE FoldWpArticles(FoldNames(by, Head(arts), Head(arts).tags), Tail(arts))

InsertByCountDesc_BeforeTies(sorted, x) ==
    LET n == Cardinality({i \in DOMAIN sorted : sorted[i].count > x.count})
    IN  SubSeq(sorted, 1, n) \o <<x>> \o SubSeq(sorted, n + 1, Len(sorted))

\* stable insertion: x goes after every element whose count is at least x.count
InsertByCountDesc(sorted, x) ==
    LET n == Cardinality({i \in DOMAIN sorted : sorted[i].count >= x.count})
    IN  SubSeq(sorted, 1, n) \o <<x>> \o SubSeq(sorted, n + 1, Len(sorted))

\* .sort((a, b) => b.count - a.count), a stable sort
RECURSIVE SortFrom(_, _)
SortFrom(sorted, rest) ==
    IF rest = <<>> THEN sorted
    ELSE SortFrom(InsertByCountDesc(sorted, Head(rest)), Tail(rest))

\* the Map's values left in insertion order
SortByCountDesc_Unsorted(list) == list

SortByCountDesc(list) == SortFrom(<<>>, list)

\* the topics of the generic fetcher
topicsOf(arts) == SortByCountDesc(FoldArticles(<<>>, arts))

\* the topics of the WordPress fetcher
aggregateTopics(arts) == SortByCountDesc(FoldWpArticles(<<>>, arts))

\* items the generic upstream can return: [title, section, tags]
GenericItems ==
    << [title |-> "t1", section |-> "news",  tags |-> [kind |-> "array", v |-> <<TagA, TagB>>]],
       [title |-> "t2", section |-> "",      tags |-> [kind |-> "array", v |-> <<TagA>>]],
       [title |-> "t3", section |-> "sport", tags |-> [kind |-> "array", v |-> <<TagC>>]],
       [title |-> "t1", section |-> "news",  tags |-> [kind |-> "array", v |-> <<TagA, TagA>>]],
       [title |-> "",   section |-> "",
        tags |-> [kind |-> "array", v |-> << <<" ", "a">>, <<" ">> >>]],
       [title |-> "t4", section |-> "",      tags |-> [kind |-> "csv", v |-> <<"a", ",", " ", "b">>]],
       [title |-> "t5", section |-> "",      tags |-> [kind |-> "none", v |-> <<>>]],
       [title |-> "t6", section |-> "sport", tags |-> [kind |-> "array", v |-> <<TagA>>]] >>

Term(taxonomy, name) == [taxonomy |-> taxonomy, name |-> name]

\* items the WordPress upstream can return: [title, terms of _embedded['wp:term']]
WpItems ==
    << [title |-> "t1", terms |-> <<Term("post_tag", TagA), Term("category", TagB)>>],
       [title |-> "t2", terms |-> <<Term("post_tag", TagA)>>],
       [title |-> "t3", terms |-> <<Term("post_tag", TagC)>>],
       [title |-> "t1", terms |-> <<Term("post_tag", TagA), Term("category", TagA)>>],
       [title |-> "",   terms |-> <<Term("post_tag", <<" ", "a">>), Term("post_tag", <<" ">>)>>],
       [title |-> "t4", terms |-> <<Term("post_tag", TagA), Term("nav_menu", TagB)>>],
       [title |-> "t5", terms |-> <<>>],
       [title |-> "t6", terms |-> <<Term("post_tag", TagA), Term("category", <<>>)>>] >>

WexScripts == {"wex_generic", "wex_wp"}

\* the articles pushed for the n items of the upstream starting at item i
Collected(i, n) ==
    IF script = "wex_generic"
    THEN [j \in 1..n |-> NormalizeItem(GenericItems[i + j - 1])]
    ELSE [j \in 1..n |-> WpArticle(WpItems[i + j - 1])]

\* a page of items arrives and the page loop goes on
WexPage ==
    /\ script \in WexScripts /\ pc = "paging"
    /\ \E i \in DOMAIN GenericItems, n \in 1..2 :
          /\ i + n - 1 <= Len(GenericItems)
          /\ Len(articles) + n <= MaxArticles
          /\ articles' = articles \o Collected(i, n)
    /\ UNCHANGED <<script, runVars, probeLast, pageVars, pc, dateVars, ga4Vars, seqVars, topics>>

\* the last page (possibly empty, or a failed request of a fetcher that breaks
\* out of the loop) arrives: the loop ends, topics are aggregated and written
WexLastPage ==
    /\ script \in WexScripts /\ pc = "paging"
    /\ \E i \in DOMAIN GenericItems, n \in 0..2 :
          /\ i + n - 1 <= Len(GenericItems)
          /\ Len(articles) + n <= MaxArticles
          /\ articles' = articles \o Collected(i, n)
    /\ topics' = IF script = "wex_generic" THEN topicsOf(articles')
                 ELSE aggregateTopics(articles')
    /\ written' = TRUE
    /\ exitCode' = 0
    /\ pc' = "done"
    /\ UNCHANGED <<script, runVars, probeLast, pageVars, dateVars, fetchVars, dataVars, rows, seqVars>>

\* a page request of the throwing generic fetcher fails: exit 1, nothing written
WexFail ==
    /\ script = "wex_generic" /\ pc = "paging"
    /\ exitCode' = 1
    /\ pc' = "done"
    /\ UNCHANGED <<script, runVars, probeLast, pageVars, dateVars, fetchVars, dataVars, rows, written, seqVars, wexVars>>

InitTopics ==
    /\ script \in WexScripts
    /\ pc = "paging"
    /\ now = At(2024, 3, 1, 2)
    /\ tz = 0
    /\ DAYS = 1
    /\ startDate = 0 /\ endDate = 0
    /\ startYMD = NoDate /\ endYMD = NoDate
    /\ dayList = <<>> /\ reqKeys = <<>>
    /\ dimAuthor = FALSE /\ dimSection = FALSE
    /\ GA4Idle
    /\ propertyId = FALSE /\ requests = <<>> /\ doc = NoDoc /\ prevDoc = NoDoc /\ mock = <<>>
    /\ values = <<>> /\ sheetData = <<>>
    /\ pageParam = TRUE
    /\ PagesIdle

NextTopics == WexPage \/ WexLastPage \/ WexFail

SpecTopics == InitTopics /\ [][NextTopics]_vars

\* the topics file of a topic fetcher has been written
WexWritten == written /\ script \in WexScripts

\* the tag names an article carries, as the aggregation keys them
KeysOf(art) ==
    LET trimmed == [i \in 1..Len(art.tags) |-> Trim(art.tags[i])]
    IN  IF script = "wex_wp" THEN SelectSeq(trimmed, LAMBDA k : k # <<>>) ELSE trimmed

RECURSIVE KeyStream(_)
KeyStream(arts) ==
    IF arts = <<>> THEN <<>> ELSE KeysOf(Head(arts)) \o KeyStream(Tail(arts))

RECURSIVE SumCounts(_)
SumCounts(list) ==
    IF list = <<>> THEN 0 ELSE Head(list).count + SumCounts(Tail(list))

RECURSIVE TotalTags(_)
TotalTags(arts) ==
    IF arts = <<>> THEN 0 ELSE Len(Head(arts).tags) + TotalTags(Tail(arts))

HasRepeatedTag(art) ==
    \E i, j \in DOMAIN art.tags : i < j /\ art.tags[i] = art.tags[j]

\* C7: for every list of normalized articles, the counts of the topics returned
\* by the generic fetcher's aggregation add up to the total length of all
\* articles' tags lists (one per article and tag occurrence).
C7_CountsSumToTagOccurrences ==
    WexWritten /\ script = "wex_generic" => SumCounts(topics) = TotalTags(articles)

C7_Witness ==
    /\ WexWritten /\ script = "wex_generic"
    /\ Len(topics) >= 2
    /\ \E i \in DOMAIN articles : HasRepeatedTag(articles[i])
    /\ \E i \in DOMAIN articles : Len(articles[i].tags) = 0
    /\ SumCounts(topics) >= 4

FirstSeen(name) ==
    CHOOSE i \in DOMAIN KeyStream(articles) :
        /\ KeyStream(articles)[i] = name
        /\ \A j \in 1..(i - 1) : KeyStream(articles)[j] # name

Summary(list) == [i \in 1..Len(list) |-> <<list[i].name, list[i].count>>]

ScenarioTags == << <<TagA, TagB>>, <<TagA>>, <<TagC>> >>

IsScenario == [i \in 1..Len(articles) |-> articles[i].tags] = ScenarioTags

\* C8: the topics list is non-increasing in count, topics with equal count are
\* in the order their tag was first encountered in the input, and the articles
\* tagged [[a,b],[a],[c]] give a (2), b (1), c (1) in that order.
C8_RankedByCountTiesFirstSeen ==
    WexWritten =>
        /\ \A i, j \in DOMAIN topics :
              i < j => /\ topics[i].count >= topics[j].count
                       /\ topics[i].count = topics[j].count =>
                              FirstSeen(topics[i].name) < FirstSeen(topics[j].name)
        /\ IsScenario => Summary(topics) = << <<TagA, 2>>, <<TagB, 1>>, <<TagC, 1>> >>

C8_Witness ==
    /\ WexWritten /\ IsScenario
    /\ Summary(topics) = << <<TagA, 2>>, <<TagB, 1>>, <<TagC, 1>> >>

ArticlesWith(name) ==
    Cardinality({i \in DOMAIN articles : HasMember(KeysOf(articles[i]), name)})

\* C9: every topic's count equals the number of articles of the batch whose
\* tags list contains the topic's name, also when an article repeats a tag.
C9_CountIsNumberOfArticles ==
    WexWritten => \A i \in DOMAIN topics : topics[i].count = ArticlesWith(topics[i].name)

\* titles of the articles carrying the tag, in input order
TitlesCarrying(name) ==
    LET carrying == SelectSeq(articles, LAMBDA art : HasMember(KeysOf(art), name))
    IN  [i \in 1..Len(carrying) |-> carrying[i].title]

RECURSIVE FirstDistinct(_, _)
FirstDistinct(seen, list) ==
    IF list = <<>> THEN seen
    ELSE IF Head(list) = "" \/ HasMember(seen, Head(list))
    THEN FirstDistinct(seen, Tail(list))
    ELSE FirstDistinct(Append(seen, Head(list)), Tail(list))

\* C10: every topic's sampleTitles has at most 3 titles, distinct and non-empty,
\* and is exactly the first (up to 3) distinct non-empty titles of the articles
\* carrying the tag, in input order.
C10_SamplesAreFirstThreeDistinctTitles ==
    WexWritten =>
        \A i \in DOMAIN topics :
            LET st == topics[i].sampleTitles
            IN  /\ Len(st) <= 3
                /\ \A j, k \in DOMAIN st : j # k => st[j] # st[k]
                /\ \A j \in DOMAIN st : st[j] # ""
                /\ st = Take(FirstDistinct(<<>>, TitlesCarrying(topics[i].name)), 3)

C10_Witness ==
    /\ WexWritten
    /\ \E i \in DOMAIN topics :
          /\ Len(topics[i].sampleTitles) = 3
          /\ Len(FirstDistinct(<<>>, TitlesCarrying(topics[i].name))) > 3

----------------------------------------------------------------------------
(* The page loop of the generic article fetchers: "wex_generic" is           *)
(* scripts/fetch_wex.js (main), "wex_since" is fetchAllSince of part_001.    *)
(* A JSON value is a record [kind, items, n]: an array of items (given by    *)
(* their index in GenericItems), a plain object, a string of n characters,   *)
(* a number n, or a falsy value.  A response body is an array, an object     *)
(* with some fields, JSON null, or text that is not JSON.                    *)

MaxPages == 2
PageLimit == 2

Arr(ids) == [kind |-> "array", items |-> ids, n |-> Len(ids)]
Obj == [kind |-> "object", items |-> <<>>, n |-> 0]
Text(n) == [kind |-> "text", items |-> <<>>, n |-> n]
Num(n) == [kind |-> "number", items |-> <<>>, n |-> n]
Falsy == [kind |-> "falsy", items |-> <<>>, n |-> 0]

\* a page that fills the requested limit
FullPage(i) == [j \in 1..PageLimit |-> ((i + j) % Len(GenericItems)) + 1]

ItemLists == { <<>>, <<2>>, FullPage(0), FullPage(2) }

Ann == <<"A", "n", "n">>
Bob == <<"B", "o", "b">>

\* further items an upstream can return: canonical and fallback field names,
\* authors in every accepted shape, malformed elements, null
OddItems ==
    << [title |-> "t7", slug |-> "s7", publishedAt |-> "p7", section |-> "news",
        authors |-> [kind |-> "array", v |-> <<Str(Ann)>>],
        tags |-> [kind |-> "array", v |-> <<TagA>>]],
       [headline |-> "t7", id |-> "s7", published_at |-> "p7", channel |-> "news",
        authors |-> [kind |-> "array", v |-> <<Str(Ann)>>],
        tags |-> [kind |-> "array", v |-> <<TagA>>]],
       [title |-> "t8", date |-> "p8",
        authors |-> [kind |-> "csv", v |-> <<" ">> \o Ann \o <<",", " ", ",">> \o Bob],
        tags |-> [kind |-> "csv", v |-> <<"a", ",", ",", " ", "b", " ">>]],
       [title |-> "t9",
        authors |-> [kind |-> "array", v |-> <<Str(<<" ">> \o Ann \o <<" ">>), Str(<<>>)>>],
        tags |-> [kind |-> "array", v |-> << <<" ", "b", " ">>, <<>> >>]],
       [title |-> "t10",
        authors |-> [kind |-> "array", v |-> <<Named(Bob), Nameless>>]],
       [title |-> "t11",
        authors |-> [kind |-> "array", v |-> <<Str(Ann), NullAuthor>>]],
       NullItem,
       [title |-> "t12", tags |-> [kind |-> "array", v |-> <<NullEl, TagC>>]],
       [x \in {} |-> ""] >>

AllItems == GenericItems \o OddItems

OddLists == { <<Len(GenericItems) + i>> : i \in DOMAIN OddItems }

ArrayBody(ids) == [kind |-> "array", items |-> ids, fields |-> [k \in {} |-> 0]]

ObjectBody(f) == [kind |-> "object", items |-> <<>>, fields |-> f]

NullBody == [kind |-> "null", items |-> <<>>, fields |-> [k \in {} |-> 0]]

NonJsonBody == [kind |-> "nonjson", items |-> <<>>, fields |-> [k \in {} |-> 0]]

One(k, v) == [x \in {k} |-> v]

Two(k1, v1, k2, v2) == [x \in {k1, k2} |-> IF x = k1 THEN v1 ELSE v2]

\* the bodies a page request can be answered with
Bodies ==
    { ArrayBody(l) : l \in ItemLists \cup OddLists }
    \cup { ObjectBody(One(k, Arr(l))) : k \in {"items", "results", "data", "posts"},
                                          l \in {<<2>>, FullPage(0)} }
    \cup { ObjectBody(One("items", Arr(<<>>))),
           ObjectBody(Two("posts", Arr(FullPage(2)), "items", Arr(<<2>>))),
           ObjectBody(Two("posts", Obj, "results", Arr(<<2>>))),
           ObjectBody(Two("items", Obj, "results", Arr(FullPage(0)))),
           ObjectBody(Two("items", Falsy, "data", Arr(FullPage(0)))),
           ObjectBody(Two("results", Num(3), "data", Arr(<<2>>))),
           ObjectBody(Two("items", Arr(FullPage(0)), "total", Num(PageLimit))),
           ObjectBody(Two("items", Arr(FullPage(0)), "total", Num(PageLimit + 1))),
           ObjectBody(One("items", Obj)),
           ObjectBody(One("items", Text(2))),
           ObjectBody(One("meta", Obj)),
           NullBody, NonJsonBody }

\* json[k]: the field, undefined (falsy) when the object has none
Field(json, k) == IF k \in DOMAIN json.fields THEN json.fields[k] ELSE Falsy

Truthy(v) == v.kind \in {"array", "object"} \/ (v.kind \in {"text", "number"} /\ v.n # 0)

\* a || b || c
FirstTruthy(a, b, c) == IF Truthy(a) THEN a ELSE IF Truthy(b) THEN b ELSE c

\* json.items || json.results || json.data
Guess(json) == FirstTruthy(Field(json, "items"), Field(json, "results"), Field(json, "data"))

\* items resolution of fetch_wex.js: array body, then --itemsKey, then the guess
resolveItems(json, key) ==
    IF json.kind = "array" THEN json.items
    ELSE IF json.kind = "object" /\ key # "" /\ Field(json, key).kind = "array"
    THEN Field(json, key).items
    ELSE IF json.kind = "object" /\ Guess(json).kind = "array" THEN Guess(json).items
    ELSE <<>>

\* buildUrl as if it set the page parameter to 1 whatever the page
Req_AlwaysFirst(p, after) == [page |-> 1, after |-> after]

\* buildUrl: the request for page p, carrying the time filter or not; the URL
\* carries the page number only if (pageParam) (0: no page parameter)
Req(p, after) == [page |-> IF pageParam THEN p ELSE 0, after |-> after]

\* all.push(...) for every item of the page
Pushed(ids) == [j \in 1..Len(ids) |-> NormalizeItem(AllItems[ids[j]])]

\* some item of the page makes its normalization raise
PageRaises(ids) == \E j \in DOMAIN ids : ItemRaises(AllItems[ids[j]])

SinceHours == 24
SampleArticles == 10
SinceSampleArticles == 20

\* Date.prototype.toISOString of the instant t: the UTC date and time of day
toISOString(t) == [date |-> UTCFields(t), hour |-> t % 24]

\* all.slice(0, n).map(a => ({ title, publishedAt, section }))
SampleOf(all2, n) ==
    [i \in 1..(IF Len(all2) < n THEN Len(all2) ELSE n) |->
        [title |-> all2[i].title, publishedAt |-> all2[i].publishedAt,
         section |-> all2[i].section]]

\* the output document: toISO is the clock at the start of main, fromISO is
\* sinceHours before it, updatedAt the clock when the document is built
OutDoc(all2, tps) ==
    [updatedAt |-> toISOString(now),
     fromISO |-> toISOString(now - SinceHours),
     toISO |-> toISOString(now),
     totalArticles |-> Len(all2),
     topics |-> tps,
     sampleArticles |-> SampleOf(all2, IF script = "wex_since" THEN SinceSampleArticles
                                       ELSE SampleArticles)]

\* main rejects or the IIFE catches: process.exit(1), nothing is written
WexAbort ==
    /\ exitCode' = 1 /\ pc' = "done"
    /\ UNCHANGED <<articles, topics, written, page, doc>>

\* the page loop ends having collected all2: topics are aggregated and the
\* output document is written
WexFinish(all2) ==
    /\ articles' = all2
    /\ topics' = topicsOf(all2)
    /\ doc' = OutDoc(all2, topics')
    /\ written' = TRUE /\ exitCode' = 0 /\ pc' = "done"
    /\ UNCHANGED page

\* the page loop goes on to the next page
WexMore(all2) ==
    /\ articles' = all2
    /\ page' = page + 1
    /\ UNCHANGED <<pc, topics, written, exitCode, doc>>

\* one iteration of the page loop of fetch_wex.js: the response is read, its
\* items are normalized and pushed; when the loop ends (error status, empty
\* page, short page, page limit) the topics are aggregated and written
GenericIteration(ok, b) ==
    /\ LET its  == IF ok THEN resolveItems(b, itemsKey) ELSE <<>>
           more == ok /\ Len(its) # 0 /\ Len(its) >= PageLimit /\ page + 1 <= MaxPages
       IN  /\ resOk' = ok /\ body' = b /\ items' = its
           /\ IF PageRaises(its) THEN WexAbort
              ELSE IF more THEN WexMore(articles \o Pushed(its))
              ELSE WexFinish(articles \o Pushed(its))
    /\ requests' = Append(requests, Req(page, TRUE))
    /\ UNCHANGED <<script, propertyId, pageParam, prevDoc, mock, sheetVars, probeLast, dateVars, fetchVars, dataVars, rows, seqVars, itemsKey>>

\* the upstream answers the page request with some status and body
GenericResponse ==
    /\ script = "wex_generic" /\ pc = "paging"
    /\ \E ok \in BOOLEAN, b \in Bodies : GenericIteration(ok, b)

\* items of fetchAllSince: the array body, or data.items || data.results ||
\* data.data || []
SinceItems(data) ==
    IF data.kind = "array" THEN Arr(data.items)
    ELSE IF Truthy(Guess(data)) THEN Guess(data) ELSE Arr(<<>>)

\* items.length, 0 for a value that has none
LengthOf(v) == IF v.kind \in {"array", "text"} THEN v.n ELSE 0

\* for (const it of items) all.push(...): the items of an array, the characters
\* of a string (which have none of the fields)
SincePushed(v) ==
    IF v.kind = "array" THEN Pushed(v.items)
    ELSE [j \in 1..LengthOf(v) |-> NormalizeItem([x \in {} |-> ""])]

\* data.total || data.count || 0
TotalOf(data) ==
    IF data.kind = "object" /\ Field(data, "total").kind = "number"
    THEN Field(data, "total").n ELSE 0

\* one iteration of the page loop of fetchAllSince: an error status, a body that
\* is not JSON or is null, or a raising item abort the run; otherwise the items
\* are pushed and the loop goes on or ends with the topics returned and written
SinceResponse ==
    /\ script = "wex_since" /\ pc = "paging"
    /\ \E ok \in BOOLEAN, b \in Bodies :
          LET v    == SinceItems(b)
              its  == IF v.kind = "array" THEN v.items ELSE <<>>
              more == /\ LengthOf(v) # 0
                      /\ ~(TotalOf(b) # 0 /\ page * PageLimit >= TotalOf(b))
                      /\ LengthOf(v) >= PageLimit
                      /\ page + 1 <= MaxPages
          IN  /\ resOk' = ok /\ body' = b
              /\ IF ~ok \/ b.kind \in {"null", "nonjson"}
                 THEN items' = <<>> /\ WexAbort
                 ELSE /\ items' = its
                      /\ IF PageRaises(its) THEN WexAbort
                         ELSE IF more THEN WexMore(articles \o SincePushed(v))
                         ELSE WexFinish(articles \o SincePushed(v))
    /\ requests' = Append(requests, Req(page, TRUE))
    /\ UNCHANGED <<script, propertyId, pageParam, prevDoc, mock, sheetVars, probeLast, dateVars, fetchVars, dataVars, rows, seqVars, itemsKey>>

InitPages ==
    /\ script \in {"wex_generic", "wex_since"}
    /\ pc = "paging"
    /\ now = At(2024, 3, 1, 2)
    /\ tz = 0
    /\ DAYS = 1
    /\ startDate = 0 /\ endDate = 0
    /\ startYMD = NoDate /\ endYMD = NoDate
    /\ dayList = <<>> /\ reqKeys = <<>>
    /\ dimAuthor = FALSE /\ dimSection = FALSE
    /\ GA4Idle
    /\ propertyId = FALSE /\ requests = <<>> /\ doc = NoDoc /\ prevDoc = NoDoc /\ mock = <<>>
    /\ values = <<>> /\ sheetData = <<>>
    /\ pageParam \in (IF script = "wex_since" THEN {TRUE} ELSE BOOLEAN)
    /\ page = 1 /\ itemsKey \in (IF script = "wex_generic" THEN {"", "posts"} ELSE {""})
    /\ resOk = TRUE /\ body = NoBody /\ items = <<>>

NextPages == GenericResponse \/ SinceResponse

SpecPages == InitPages /\ [][NextPages]_vars

\* the first of the keys items, results, data that holds an array
FirstArrayKey(json) ==
    IF Field(json, "items").kind = "array" THEN "items"
    ELSE IF Field(json, "results").kind = "array" THEN "results"
    ELSE IF Field(json, "data").kind = "array" THEN "data"
    ELSE ""

\* C11: in fetch_wex.js, when the response body is an object the item list is
\* the array under --itemsKey if that key holds an array, otherwise the array
\* under the first of items, results, data that holds an array, otherwise empty.
C11_ItemsFromConfiguredKeyThenFallbacks ==
    script = "wex_generic" /\ body.kind = "object" /\ resOk =>
        items = IF itemsKey # "" /\ Field(body, itemsKey).kind = "array"
                THEN Field(body, itemsKey).items
                ELSE IF FirstArrayKey(body) # "" THEN Field(body, FirstArrayKey(body)).items
                ELSE <<>>

\* a page response has been handled by one of the generic fetchers
PageHandled == script \in {"wex_generic", "wex_since"} /\ body.kind # "none"

\* the body carries no item list: it is not an array and neither --itemsKey nor
\* any known key holds an array
NoItemList(json) ==
    \/ json.kind \in {"null", "nonjson"}
    \/ /\ json.kind = "object"
       /\ FirstArrayKey(json) = ""
       /\ ~(itemsKey # "" /\ Field(json, itemsKey).kind = "array")

\* C12: in both generic fetchers a 2xx response whose body carries no item list
\* is an empty page: nothing is raised, nothing is pushed, the page loop stops
\* and the output document is written.
C12_MissingListIsEmptyPage ==
    PageHandled /\ resOk /\ NoItemList(body) =>
        /\ pc = "done" /\ written /\ exitCode = 0
        /\ items = <<>>
        /\ page = 1 => articles = <<>>

CanonicalNames == {"title", "slug", "publishedAt", "section"}

FirstFallbackNames == {"headline", "id", "published_at", "channel"}

ToFallback(k) ==
    CASE k = "title" -> "headline"
      [] k = "slug" -> "id"
      [] k = "publishedAt" -> "published_at"
      [] k = "section" -> "channel"
      [] OTHER -> k

ToCanonical(k) ==
    CASE k = "headline" -> "title"
      [] k = "id" -> "slug"
      [] k = "published_at" -> "publishedAt"
      [] k = "channel" -> "section"
      [] OTHER -> k

\* the item carrying the same values under the first fallback names only
FallbackOf(it) == [k \in {ToFallback(x) : x \in DOMAIN it} |-> it[ToCanonical(k)]]

\* the item supplies canonical names and none of the first fallback names
SuppliesCanonical(it) ==
    /\ DOMAIN it \cap CanonicalNames # {}
    /\ DOMAIN it \cap FirstFallbackNames = {}

\* the article pushed for the j-th item of the last page
PushedFor(j) == articles[Len(articles) - Len(items) + j]

\* the last page was an array of items that were all pushed
PagePushed == PageHandled /\ resOk /\ items # <<>> /\ ~PageRaises(items)

\* C13: an item that supplies the canonical field names (title, slug,
\* publishedAt, section) is normalized to the same article as the item that
\* carries the same values only under headline, id, published_at, channel.
C13_FallbackNamesNormalizeAlike ==
    PagePushed =>
        \A j \in DOMAIN items :
            SuppliesCanonical(AllItems[items[j]]) =>
                PushedFor(j) = NormalizeItem(FallbackOf(AllItems[items[j]]))

C13_Witness ==
    /\ PagePushed
    /\ \E j \in DOMAIN items :
          /\ CanonicalNames \subseteq DOMAIN AllItems[items[j]]
          /\ SuppliesCanonical(AllItems[items[j]])
          /\ PushedFor(j).section = "news" /\ PushedFor(j).slug = "s7"
          /\ PushedFor(j).title = "t7" /\ PushedFor(j).publishedAt = "p7"
          /\ PushedFor(j) = NormalizeItem(AllItems[items[j] + 1])

\* every element is a non-empty string without leading or trailing whitespace
AllTrimmedNonEmpty(list) ==
    \A i \in DOMAIN list : list[i] # <<>> /\ Trim(list[i]) = list[i]

TagsAreClean ==
    PagePushed => \A j \in DOMAIN items : AllTrimmedNonEmpty(PushedFor(j).tags)

AuthorsAreClean ==
    PagePushed => \A j \in DOMAIN items : AllTrimmedNonEmpty(PushedFor(j).authors)

\* C14: normalizeTags and normalizeAuthors each return trimmed, non-empty
\* strings, for a field that arrives as an array and for one that arrives as a
\* comma-separated string.
C14_NormalizedListsTrimmedNonEmpty == TagsAreClean /\ AuthorsAreClean

\* C15: normalization of the items of a fetched page never raises, also for
\* items with missing fields, null elements in authors or tags, or a null item:
\* every item of the page is pushed as a record.
C15_NormalizationIsTotal ==
    PageHandled /\ resOk /\ items # <<>> =>
        /\ exitCode # 1
        /\ Len(articles) >= Len(items)

\* C20: when a page request returns a non-success HTTP status the run is fatal
\* (non-zero exit status) and a minimal output document is still written.
C20_HttpErrorIsFatalButWrites ==
    PageHandled /\ ~resOk => pc = "done" /\ exitCode >= 1 /\ written

----------------------------------------------------------------------------
(* Properties of the author dimension probe (script "probe").               *)


\* rows of the accepted report on date d whose dimension value is not blank
FilledRowsOn(d) ==
    {i \in DOMAIN authReport : authReport[i].date = d /\ ~TrimIsEmpty(authReport[i].dim)}

FilledDates ==
    {authReport[i].date : i \in {j \in DOMAIN authReport : ~TrimIsEmpty(authReport[j].dim)}}

RECURSIVE SumLen(_, _)
SumLen(map, keys) ==
    IF keys = {} THEN 0
    ELSE LET k == CHOOSE x \in keys : TRUE
         IN  Len(map[k]) + SumLen(map, keys \ {k})

MapEntryCount == SumLen(authMap, DOMAIN authMap)

ProbeAccepted == script = "probe" /\ authState = "ok" /\ probeLast = "rows"

\* the returned Map holds, per date, rows of the accepted report with a
\* non-blank dimension value and nothing else
ProbeMapFromFilledRows ==
    ProbeAccepted =>
        /\ DOMAIN authMap = FilledDates
        /\ \A d \in DOMAIN authMap :
              /\ Len(authMap[d]) =
                    IF Cardinality(FilledRowsOn(d)) < 10 THEN Cardinality(FilledRowsOn(d)) ELSE 10
              /\ \A j \in DOMAIN authMap[d] :
                    \E i \in FilledRowsOn(d) :
                        /\ authMap[d][j].author = authReport[i].dim
                        /\ authMap[d][j].views = OrZero(authReport[i].views)

\* x yields no non-empty row and y yields 3: the 3 rows of y are returned
ProbeScenario ==
    /\ ProbeAccepted /\ authIdx = 2
    /\ Cardinality(UNION {FilledRowsOn(d) : d \in FilledDates}) = 3

\* C16: fetchAuthorsPerDay tries the candidates in list order from the configured
\* one, accepts the first whose report has a row with a non-blank dimension
\* value, builds the Map only from that report's non-blank rows and queries no
\* later candidate; with x empty and y yielding 3 rows the 3 rows are returned
\* without error.
C16_ProbeAcceptsFirstNonEmptyCandidate ==
    /\ [](ProbeMapFromFilledRows /\ (ProbeScenario => MapEntryCount = 3 /\ authState # "failed"))
    /\ [][script = "probe" /\ authIdx' # authIdx =>
             \/ authIdx = 0 /\ authIdx' = 1
             \/ /\ authIdx' = authIdx + 1 /\ authState = "pending"
                /\ probeLast' \in {"failed", "empty"}]_vars
    /\ [][ProbeAccepted => authIdx' = authIdx /\ authMap' = authMap /\ ProbeAccepted']_vars

C16_Witness ==
    /\ ProbeScenario /\ MapEntryCount = 3
    /\ written /\ exitCode = 0

ProbeExhausted ==
    script = "probe" /\ authState = "ok" /\ probeLast \in {"failed", "empty"}

\* C17: a failed attempt of fetchAuthorsPerDay counts as no rows and the probe
\* goes on to the next candidate; when every candidate fails or has no non-blank
\* row the probe returns an empty Map; it never raises.
C17_ProbeFailureIsNoRows ==
    /\ [](script = "probe" => authState # "failed")
    /\ [](ProbeExhausted => authMap = EmptyMap /\ authIdx = Len(AUTHOR_DIM_CANDIDATES))
    /\ [][script = "probe" /\ authState = "pending" /\ probeLast' = "failed"
          /\ <<authIdx, authState>>' # <<authIdx, authState>> =>
             \/ /\ authIdx < Len(AUTHOR_DIM_CANDIDATES)
                /\ authIdx' = authIdx + 1 /\ authState' = "pending"
             \/ /\ authIdx = Len(AUTHOR_DIM_CANDIDATES)
                /\ authState' = "ok" /\ authMap' = EmptyMap]_vars

C17_Witness ==
    /\ ProbeExhausted /\ probeLast = "failed"
    /\ authMap = EmptyMap
    /\ written /\ exitCode = 0
    /\ \A i \in DOMAIN rows : rows[i].authors = <<>>

\* C18: no author entry of a written row has author "(not set)", in the
\* yesterday-only script and in the probing per-day script, whatever rows the
\* upstream returns.
C18_NoNotSetAuthorWritten ==
    written /\ script \in {"probe", "yesterday_env"} =>
        \A i \in DOMAIN rows :
            "authors" \in DOMAIN rows[i] =>
                \A j \in DOMAIN rows[i].authors : rows[i].authors[j].author # "(not set)"

----------------------------------------------------------------------------
(* The CommonJS script ("last7", part_000): KPI rows of '7daysAgo' to        *)
(* 'yesterday', then referrers and authors of the most recent row fetched    *)
(* concurrently and attached to it.                                          *)

\* the row fetchKPIsLast7Days builds for one report row
Last7Row(r) ==
    [date |-> r.date,
     totalUsers |-> OrZero(r.mv[1]), newUsers |-> OrZero(r.mv[2]),
     pageviews |-> OrZero(r.mv[3]), sessions |-> OrZero(r.mv[4]),
     bounceRate |-> OrZero(r.mv[5]), averageSessionDuration |-> OrZero(r.mv[6])]

Last7RefEntry(r) ==
    [source |-> IF r.dim = "" THEN "(unknown)" ELSE r.dim, users |-> OrZero(r.users)]

Last7AuthEntry(r) ==
    [author |-> IF r.dim = "" THEN "(not set)" ELSE r.dim,
     users |-> OrZero(r.users), views |-> OrZero(r.views)]

\* kpiRows[kpiRows.length - 1].referrers = referrers; ... .authors = authors
AttachToLast(rs, refs, auths) ==
    [rs EXCEPT ![Len(rs)] = SetField(SetField(@, "referrers", refs), "authors", auths)]

\* the KPI report resolved: no rows raise 'No KPI rows returned' (exit 1), else
\* the two breakdown reports of the last row's date are requested
Last7KpiFulfil ==
    /\ script = "last7" /\ pc = "resolved" /\ propertyId
    /\ \E rep \in KpiReports \cup {<<>>} :
          /\ kpiReport' = rep
          /\ rows' = [i \in 1..Len(rep) |-> Last7Row(rep[i])]
          /\ IF Len(rep) = 0
             THEN /\ exitCode' = 1 /\ pc' = "done"
                  /\ UNCHANGED <<refState, authState>>
             ELSE /\ pc' = "fanout"
                  /\ refState' = "pending" /\ authState' = "pending"
                  /\ UNCHANGED exitCode
    /\ kpiState' = "ok"
    /\ UNCHANGED <<script, runVars, probeLast, pageVars, seqVars, wexVars, dateVars, authIdx,
                   refReport, authReport, dataVars, written>>

\* the KPI report rejected: the catch exits 1
Last7KpiReject ==
    /\ script = "last7" /\ pc = "resolved" /\ propertyId
    /\ kpiState' = "failed"
    /\ exitCode' = 1
    /\ pc' = "done"
    /\ UNCHANGED <<script, runVars, probeLast, pageVars, seqVars, wexVars, dateVars, refState, authState,
                   authIdx, kpiReport, refReport, authReport, dataVars, rows, written>>

\* both breakdowns fulfilled: attached to the last row, document written
Last7Compose ==
    /\ script = "last7" /\ pc = "fanout"
    /\ refState = "ok" /\ authState = "ok"
    /\ rows' = AttachToLast(rows,
                   [i \in 1..Len(refReport) |-> Last7RefEntry(refReport[i])],
                   [i \in 1..Len(authReport) |-> Last7AuthEntry(authReport[i])])
    /\ written' = TRUE
    /\ exitCode' = 0
    /\ pc' = "done"
    /\ UNCHANGED <<script, runVars, probeLast, pageVars, seqVars, wexVars, dateVars, fetchVars, dataVars>>

Last7Nows == { At(2024, 3, 1, 2), At(2025, 1, 3, 12) }

\* the range is resolved by the upstream from '7daysAgo' and 'yesterday'
InitLast7 ==
    /\ script = "last7"
    /\ pc = "resolved"
    /\ now \in Last7Nows
    /\ tz = 0
    /\ DAYS = 7
    /\ startDate = addDays(truncUTC(now), -7) /\ endDate = addDays(truncUTC(now), -1)
    /\ startYMD = ymd(startDate) /\ endYMD = ymd(endDate)
    /\ dayList = <<>> /\ reqKeys = KeysBetween(startYMD, endYMD)
    /\ dimAuthor = FALSE /\ dimSection = FALSE
    /\ GA4Idle
    /\ propertyId \in BOOLEAN /\ requests = <<>> /\ doc = NoDoc /\ prevDoc = NoDoc /\ mock = <<>>
    /\ values = <<>> /\ sheetData = <<>>
    /\ pageParam = TRUE
    /\ PagesIdle

NextLast7 ==
    \/ MissingProperty
    \/ Last7KpiFulfil \/ Last7KpiReject
    \/ RefFulfil \/ RefReject
    \/ AuthFulfil \/ AuthReject
    \/ Last7Compose \/ JoinReject

SpecLast7 == InitLast7 /\ [][NextLast7]_vars

\* C19: when the KPI report returns zero rows the GA4 pipeline still writes a
\* document with an empty rows list, issues no breakdown fetch and exits 0.
C19_ZeroRowsWritesEmptyDocument ==
    script \in {"yesterday_env", "last7"} /\ kpiState = "ok" /\ kpiReport = <<>> =>
        /\ pc = "done" /\ written /\ rows = <<>> /\ exitCode = 0
        /\ refState = "idle" /\ authState = "idle"

----------------------------------------------------------------------------
(* Every GA4 fetcher, from process start.                                   *)

InitGA4 == InitMerge \/ InitDirect \/ InitSeq \/ InitLast7

NextGA4 == NextMerge \/ NextDirect \/ NextSeq \/ NextLast7

SpecGA4 == InitGA4 /\ [][NextGA4]_vars

\* no report has been requested or received and nothing was written
NothingRequested ==
    /\ kpiState = "idle" /\ refState = "idle" /\ authState = "idle"
    /\ kpiReport = <<>> /\ refReport = <<>> /\ authReport = <<>>
    /\ rows = <<>> /\ dayIdx = 0 /\ failures = 0
    /\ ~written

\* C21: when the property id is absent, a GA4 fetcher requests no report and
\* writes nothing, and once it has taken its first step it has exited with
\* status 1.
C21_MissingPropertyExitsBeforeAnyRequest ==
    ~propertyId =>
        /\ NothingRequested
        /\ \/ Booting /\ exitCode = -1
           \/ pc = "done" /\ exitCode = 1

C21_Witness == ~propertyId /\ pc = "done" /\ exitCode = 1 /\ script = "perday_seq"

----------------------------------------------------------------------------
(* The WordPress article fetcher with its fallback fetch.                   *)

FallbackPages == 2
FallbackLimit == 1

\* item lists a WordPress page may carry (indices into WpItems)
WpLists == { <<>>, <<1>>, [j \in 1..PageLimit |-> j], [j \in 1..PageLimit |-> j + 2] }

WpBodies ==
    { ArrayBody(l) : l \in WpLists }
    \cup { ObjectBody(One("posts", Arr(<<1>>))), NullBody, NonJsonBody }

\* the output document of the WordPress fetcher (sample articles by title)
WpDoc(all2, tps) ==
    [updatedAt |-> toISOString(now),
     fromISO |-> toISOString(now - SinceHours),
     toISO |-> toISOString(now),
     totalArticles |-> Len(all2),
     topics |-> tps,
     sampleArticles |-> [i \in 1..(IF Len(all2) < SampleArticles THEN Len(all2)
                                    ELSE SampleArticles) |-> [title |-> all2[i].title]]]

NeedsFallback_Always(first, all2) == first

\* if (articles.length === 0) after the time-filtered call
NeedsFallback(first, all2) == first /\ Len(all2) = 0

\* one iteration of the for loop of fetchPosts, in the time-filtered call
\* (pc = "paging") or in the fallback call (pc = "fallback"); when the first
\* call returns nothing main() starts the fallback call, otherwise (and after
\* the fallback call) it aggregates and writes the document
WpResponse ==
    /\ script = "wex_wp" /\ pc \in {"paging", "fallback"}
    /\ \E ok \in BOOLEAN, b \in WpBodies :
          LET first == pc = "paging"
              limit == IF first THEN PageLimit ELSE FallbackLimit
              maxp  == IF first THEN MaxPages ELSE FallbackPages
              its   == IF ok /\ b.kind = "array" THEN b.items ELSE <<>>
              all2  == articles \o [j \in 1..Len(its) |-> WpArticle(WpItems[its[j]])]
              more  == ok /\ b.kind = "array" /\ Len(its) >= limit /\ page + 1 <= maxp
          IN  /\ requests' = Append(requests, Req(page, first))
              /\ resOk' = ok /\ body' = b /\ items' = its
              /\ articles' = all2
              /\ IF more
                 THEN page' = page + 1 /\ UNCHANGED <<pc, topics, written, exitCode, doc>>
                 ELSE IF NeedsFallback(first, all2)
                 THEN pc' = "fallback" /\ page' = 1 /\ UNCHANGED <<topics, written, exitCode, doc>>
                 ELSE /\ topics' = aggregateTopics(all2)
                      /\ doc' = WpDoc(all2, topics')
                      /\ written' = TRUE /\ exitCode' = 0 /\ pc' = "done"
                      /\ UNCHANGED page
    /\ UNCHANGED <<script, propertyId, pageParam, prevDoc, mock, sheetVars, probeLast, dateVars, fetchVars, dataVars, rows, seqVars, itemsKey>>

\* fetch (or res.text()) rejects: fetchPosts and main reject, the catch exits 1
WpReject ==
    /\ script = "wex_wp" /\ pc \in {"paging", "fallback"}
    /\ requests' = Append(requests, Req(page, pc = "paging"))
    /\ exitCode' = 1 /\ pc' = "done"
    /\ UNCHANGED <<script, propertyId, pageParam, prevDoc, mock, sheetVars, probeLast, dateVars, fetchVars, dataVars, rows, written,
                   seqVars, wexVars, pageVars, doc>>

InitWp ==
    /\ script = "wex_wp"
    /\ pc = "paging"
    /\ now = At(2024, 3, 1, 2)
    /\ tz = 0
    /\ DAYS = 1
    /\ startDate = 0 /\ endDate = 0
    /\ startYMD = NoDate /\ endYMD = NoDate
    /\ dayList = <<>> /\ reqKeys = <<>>
    /\ dimAuthor = FALSE /\ dimSection = FALSE
    /\ GA4Idle
    /\ propertyId = FALSE /\ requests = <<>> /\ doc = NoDoc /\ prevDoc = NoDoc /\ mock = <<>>
    /\ values = <<>> /\ sheetData = <<>>
    /\ pageParam \in (IF script = "wex_since" THEN {TRUE} ELSE BOOLEAN)
    /\ page = 1 /\ itemsKey = ""
    /\ resOk = TRUE /\ body = NoBody /\ items = <<>>

NextWp == WpResponse \/ WpReject

SpecWp == InitWp /\ [][NextWp]_vars

----------------------------------------------------------------------------
(* The page loops of the article fetchers together.                         *)

InitArticles == InitPages \/ InitWp

NextArticles == NextPages \/ NextWp

SpecArticles == InitArticles /\ [][NextArticles]_vars

\* the requests of the time-filtered loop (after = TRUE) or of the fallback loop
LoopRequests(after) == SelectSeq(requests, LAMBDA r : r.after = after)

\* the request log of one loop holds at most cap requests; those that carry
\* a page number ask for pages 1, 2, ...
CountsUp(log, cap) ==
    /\ Len(log) <= cap
    /\ \A i \in DOMAIN log : log[i].page \in {0, i}

C22_LoopsBounded ==
    /\ CountsUp(LoopRequests(TRUE), MaxPages)
    /\ CountsUp(LoopRequests(FALSE), FallbackPages)
    /\ \A i, j \in DOMAIN requests :
          i < j /\ requests[i].after = requests[j].after /\ requests[i].page # 0
              => requests[i].page # requests[j].page

\* a step is taken by a running loop and issues exactly one more page request
C22_StepIssuesRequest == pc # "done" /\ Len(requests') = Len(requests) + 1

----------------------------------------------------------------------------
(* The generic article fetcher run twice against one mocked upstream.       *)

\* the answers a mocked upstream gives to a page request
MockPages ==
    { [ok |-> TRUE, body |-> ArrayBody(l)] : l \in ItemLists }
    \cup { [ok |-> TRUE, body |-> ObjectBody(One("items", Arr(<<2>>)))],
           [ok |-> FALSE, body |-> NonJsonBody] }

\* the wall-clock advance between the two runs, in hours
Laters == {1, 24}

\* one iteration of the page loop, answered by the mock
MockedResponse ==
    /\ script = "wex_generic" /\ pc = "paging" /\ mock # <<>>
    /\ GenericIteration(mock[page].ok, mock[page].body)

\* the pipeline is started again, later, against the same mock
SecondRun ==
    /\ script = "wex_generic" /\ pc = "done" /\ written /\ prevDoc = NoDoc
    /\ \E dt \in Laters : now' = now + dt
    /\ prevDoc' = doc
    /\ doc' = NoDoc
    /\ pc' = "paging" /\ page' = 1
    /\ articles' = <<>> /\ topics' = <<>>
    /\ requests' = <<>>
    /\ resOk' = TRUE /\ body' = NoBody /\ items' = <<>>
    /\ written' = FALSE /\ exitCode' = -1
    /\ UNCHANGED <<script, propertyId, pageParam, mock, sheetVars, probeLast, tz, DAYS, startDate, endDate,
                   startYMD, endYMD, dayList, reqKeys, fetchVars, dataVars, rows, seqVars,
                   itemsKey>>

InitTwice ==
    /\ script = "wex_generic"
    /\ pc = "paging"
    /\ now = At(2024, 3, 1, 2)
    /\ tz = 0
    /\ DAYS = 1
    /\ startDate = 0 /\ endDate = 0
    /\ startYMD = NoDate /\ endYMD = NoDate
    /\ dayList = <<>> /\ reqKeys = <<>>
    /\ dimAuthor = FALSE /\ dimSection = FALSE
    /\ GA4Idle
    /\ propertyId = FALSE /\ requests = <<>> /\ doc = NoDoc /\ prevDoc = NoDoc
    /\ values = <<>> /\ sheetData = <<>>
    /\ mock \in [1..MaxPages -> MockPages]
    /\ pageParam = TRUE
    /\ page = 1 /\ itemsKey = ""
    /\ resOk = TRUE /\ body = NoBody /\ items = <<>>

NextTwice == MockedResponse \/ SecondRun

SpecTwice == InitTwice /\ [][NextTwice]_vars

\* both runs have written their document
BothWritten == prevDoc # NoDoc /\ doc # NoDoc

\* the two documents agree in every field other than updatedAt
SameButUpdatedAt(d1, d2) ==
    \A f \in DOMAIN d1 \ {"updatedAt"} : d1[f] = d2[f]

\* C23: two runs of the article pipeline against the same mocked upstream, at
\* two wall-clock times, write documents that are equal in every field except
\* updatedAt.
C23_RerunChangesOnlyUpdatedAt ==
    BothWritten => SameButUpdatedAt(prevDoc, doc)

\* what does hold: the two documents agree in every field that is not a
\* timestamp (totalArticles, topics, sampleArticles)
C23_RerunChangesOnlyTimestamps ==
    BothWritten =>
        \A f \in DOMAIN prevDoc \ {"updatedAt", "fromISO", "toISO"} : prevDoc[f] = doc[f]

----------------------------------------------------------------------------
(* The Sheets fetchers: "sheets_api" (fetch_sheets.js), "sheets_range" and  *)
(* "sheets_rest" (the two fetchers of part_003).                            *)

MaxCols == 2

SheetsScripts == {"sheets_api", "sheets_range", "sheets_rest"}

\* a cell is a string, kept as its sequence of characters
HeaderCells == { <<>>, <<"a">>, <<"b">>, <<" ", "a">>, <<" ">> }

\* r[i] of a row that has no cell i
Undefined == <<"undefined">>

Digits == <<"1", "2", "3", "4", "5", "6", "7", "8", "9">>

\* `col${i+1}` for the zero-based column i, given its one-based position
Placeholder(pos) == <<"c", "o", "l", Digits[pos]>>

Headers == UNION { [1..n -> HeaderCells] : n \in 0..MaxCols }

\* data rows: shorter than, as long as and longer than the header
DataRowLists ==
    { <<>>,
      << << <<"x">> >> >>,
      << [i \in 1..MaxCols |-> <<"y">>], <<>> >>,
      << [i \in 1..(MaxCols + 1) |-> <<"z">>] >> }

Sheets == { <<>> } \cup { <<h>> \o rs : h \in Headers, rs \in DataRowLists }

\* values[0] || []
HeaderOf(vals) == IF vals = <<>> THEN <<>> ELSE vals[1]

\* the key the fetcher gives column pos: h || `col${i+1}` of the trimmed
\* header in the REST fetcher, the header cell itself in the other two
KeyOf(h, pos) ==
    IF script = "sheets_rest"
    THEN (IF Trim(h[pos]) = <<>> THEN Placeholder(pos) ELSE Trim(h[pos]))
    ELSE h[pos]

\* r[i] ?? '' (REST and range fetchers), r[i] (fetch_sheets.js)
CellOf(r, pos) ==
    IF pos <= Len(r) THEN r[pos]
    ELSE IF script = "sheets_api" THEN Undefined ELSE <<>>

\* the column whose value a key ends up with: the last one that has the key
LastWith(h, k) ==
    CHOOSE pos \in DOMAIN h :
        /\ KeyOf(h, pos) = k
        /\ \A q \in DOMAIN h : KeyOf(h, q) = k => q <= pos

\* Object.fromEntries(header.map((h, i) => [h, r[i]])), or the forEach that
\* assigns row[key] = value column by column
KeyedRow(h, r) ==
    [k \in { KeyOf(h, pos) : pos \in DOMAIN h } |-> CellOf(r, LastWith(h, k))]

\* values.slice(1).map(...)
KeyedRows(vals) ==
    [j \in 1..(IF vals = <<>> THEN 0 ELSE Len(vals) - 1) |->
        KeyedRow(HeaderOf(vals), vals[j + 1])]

\* the values arrive: rows are keyed and the document is written
SheetsResponse ==
    /\ script \in SheetsScripts /\ pc = "fetching"
    /\ sheetData' = KeyedRows(values)
    /\ written' = TRUE /\ exitCode' = 0 /\ pc' = "done"
    /\ UNCHANGED <<script, propertyId, requests, pageParam, doc, prevDoc, mock, values,
                   probeLast, dateVars, fetchVars, dataVars, rows, seqVars, wexVars, pageVars>>

\* the request fails (rejection, or a status that is not ok in the REST
\* fetcher): main rejects and the catch exits 1
SheetsError ==
    /\ script \in SheetsScripts /\ pc = "fetching"
    /\ exitCode' = 1 /\ pc' = "done"
    /\ UNCHANGED <<script, runVars, probeLast, dateVars, fetchVars, dataVars, rows, written,
                   seqVars, wexVars, pageVars>>

InitSheets ==
    /\ script \in SheetsScripts
    /\ pc = "fetching"
    /\ now = At(2024, 3, 1, 2)
    /\ tz = 0
    /\ DAYS = 1
    /\ startDate = 0 /\ endDate = 0
    /\ startYMD = NoDate /\ endYMD = NoDate
    /\ dayList = <<>> /\ reqKeys = <<>>
    /\ dimAuthor = FALSE /\ dimSection = FALSE
    /\ GA4Idle
    /\ propertyId = FALSE /\ requests = <<>> /\ doc = NoDoc /\ prevDoc = NoDoc /\ mock = <<>>
    /\ values \in Sheets /\ sheetData = <<>>
    /\ pageParam = TRUE
    /\ PagesIdle

NextSheets == SheetsResponse \/ SheetsError

SpecSheets == InitSheets /\ [][NextSheets]_vars

\* C24: every Sheets fetcher writes one keyed row per data row; no row has an
\* empty key, and every column whose header cell is empty appears under its
\* positional placeholder, so that two such columns are kept apart.
C24_EmptyHeadersGetPlaceholders ==
    written /\ script \in SheetsScripts =>
        /\ Len(sheetData) = (IF values = <<>> THEN 0 ELSE Len(values) - 1)
        /\ \A j \in DOMAIN sheetData :
              /\ <<>> \notin DOMAIN sheetData[j]
              /\ \A pos \in DOMAIN HeaderOf(values) :
                    HeaderOf(values)[pos] = <<>> => Placeholder(pos) \in DOMAIN sheetData[j]

\* the REST fetcher alone keeps the property
C24_RestFetcherUsesPlaceholders ==
    script = "sheets_rest" => C24_EmptyHeadersGetPlaceholders

----------------------------------------------------------------------------
(* The fan-out of the three reports and the order in which they settle.     *)

FanoutScripts == {"probe", "fanout", "rest"}

\* the rows the merge gives for the three responses, whatever their order
MergedFrom(kr, rr, ar) ==
    LET auths == IF script = "probe" THEN AuthorsPerDayOf(nonEmptyRows(ar))
                 ELSE AuthorsPerDayOf(ar)
        k == MergeAll(fetchDailyKPIs(kr), MergeLoopKeys(startDate, endDate, tz),
                      fetchReferrersPerDay(rr), auths)
    IN  ValuesByDate(k, DOMAIN k)

C25_RowsDependOnResponsesOnly ==
    written /\ script \in FanoutScripts =>
        rows = IF script = "rest"
               THEN SortByDateAsc([i \in 1..Len(kpiReport) |-> RestRow(kpiReport[i])])
               ELSE MergedFrom(kpiReport, refReport, authReport)

kpiBranch == <<kpiState, kpiReport, kpis>>
refBranch == <<refState, refReport, refMap>>
authBranch == <<authState, authIdx, authReport, authMap>>

\* while the join is awaited, a step that changes one branch leaves the state
\* and the result of the other two as they are
C25_BranchesIsolated ==
    pc = "fanout" /\ pc' = "fanout" /\ script \in FanoutScripts =>
        /\ kpiBranch' # kpiBranch => UNCHANGED <<refBranch, authBranch>>
        /\ refBranch' # refBranch => UNCHANGED <<kpiBranch, authBranch>>
        /\ authBranch' # authBranch => UNCHANGED <<kpiBranch, refBranch>>

\* C25: the three concurrently fetched reports share no mutable state - a
\* branch that settles changes nothing of the other two - and the rows written
\* after three successful branches are a function of the three responses
\* alone, the same for every order in which the branches complete.
C25_MergeIndependentOfCompletionOrder ==
    []C25_RowsDependOnResponsesOnly /\ [][C25_BranchesIsolated]_vars

\* three branches succeeded and the merge used all three results
C25_Witness ==
    /\ written /\ script \in {"probe", "fanout"}
    /\ kpiState = "ok" /\ refState = "ok" /\ authState = "ok"
    /\ \E i \in DOMAIN rows :
          /\ Len(rows[i].referrers) > 0
          /\ Len(rows[i].authors) > 0

----------------------------------------------------------------------------
(* Tag aggregation and the order of the article list.                       *)

\* the list with the articles at positions i and i + 1 exchanged
SwapAt(list, i) ==
    [j \in DOMAIN list |-> IF j = i THEN list[i + 1] ELSE IF j = i + 1 THEN list[i] ELSE list[j]]

\* the aggregation the running fetcher applies
Aggregate(arts) == IF script = "wex_generic" THEN topicsOf(arts) ELSE aggregateTopics(arts)

\* the count of every tag of a topics list
CountPerTag(tps) == { <<tps[i].name, tps[i].count>> : i \in DOMAIN tps }

\* the counts of a topics list in ranked order
CountsInRank(tps) == [i \in DOMAIN tps |-> tps[i].count]

\* C26: exchanging two neighbouring articles leaves the count of every tag and
\* the sequence of counts of the ranked list as they are. Every article list up
\* to the bound is reached and every permutation is a product of exchanges of
\* neighbours, so the same holds for every permutation of the article list.
C26_CountsInvariantUnderReordering ==
    WexWritten =>
        \A i \in 1..(Len(articles) - 1) :
            LET tps == Aggregate(SwapAt(articles, i))
            IN  /\ CountPerTag(tps) = CountPerTag(topics)
                /\ CountsInRank(tps) = CountsInRank(topics)

\* a reordering that changes the topics list (the order of equal-count topics
\* or the sample titles) and leaves the counts alone
C26_Witness ==
    /\ WexWritten
    /\ \E i \in 1..(Len(articles) - 1) :
          /\ Aggregate(SwapAt(articles, i)) # topics
          /\ CountsInRank(Aggregate(SwapAt(articles, i))) = CountsInRank(topics)
          /\ Len(topics) >= 2

----------------------------------------------------------------------------
(* The page loop of the generic article fetcher, request by request.        *)

\* the page requests so far asked for pages 1, 2, ... in this order
RequestedInOrder == \A i \in DOMAIN requests : requests[i].page = i

\* the answer just read ends the loop: error status, no items, a short page
LastPage == ~resOk' \/ Len(items') = 0 \/ Len(items') < PageLimit

\* a step of the loop: a last page ends it; unless an item raised, the items
\* of a page read with success are appended, in order, to the collected ones
LoopStep ==
    script = "wex_generic" =>
        /\ LastPage => pc' = "done"
        /\ exitCode' # 1 =>
              articles' = articles \o (IF resOk' THEN Pushed(items') ELSE <<>>)

\* the document counts the collected articles
TotalIsCollected == written /\ script = "wex_generic" => doc.totalArticles = Len(articles)

\* C27: the generic fetcher requests pages 1, 2, ... in increasing order, stops
\* after the first page that is empty, short or answered with an error status,
\* collects exactly the items of the pages read with success, in page order,
\* and writes their number as totalArticles.
C27_PagesInOrderCollectedInOrder ==
    /\ [](script = "wex_generic" => RequestedInOrder)
    /\ []TotalIsCollected
    /\ [][LoopStep]_vars

\* what holds whatever --pageParam is: the stop conditions, the collection
\* and the total; the order of the page numbers holds when --pageParam is set
C27_HoldsWithPageParameter ==
    /\ [](script = "wex_generic" /\ pageParam => RequestedInOrder)
    /\ []TotalIsCollected
    /\ [][LoopStep]_vars

\* ---------------------------------------------------------------------------
\* Attaching yesterday's breakdowns (fetch_ga4.js 133-138, part_000 105-116)
\* ---------------------------------------------------------------------------

YesterdayOnlyScripts == {"yesterday_env", "last7"}

\* the row carries a breakdown field
HasBreakdown(r) == "referrers" \in DOMAIN r \/ "authors" \in DOMAIN r

\* the rows of the written document that carry a breakdown field
BreakdownRows == {i \in DOMAIN rows : HasBreakdown(rows[i])}

OnlyYesterdayEnriched ==
    \A i \in BreakdownRows : rows[i].date = Compact(endYMD)

\* C28: in the yesterday-only fetchers the written document carries referrers
\* and authors on the row dated yesterday and on no other row, whatever rows
\* the KPI report holds, yesterday's row missing included.
C28_BreakdownsOnYesterdayRowOnly ==
    (script \in YesterdayOnlyScripts /\ written) => OnlyYesterdayEnriched

\* what holds of the first variant, which looks the row up by its date
C28_FindByDateAttachesToYesterdayOnly ==
    (script = "yesterday_env" /\ written) => OnlyYesterdayEnriched


\* ---------------------------------------------------------------------------
\* The day loop of the per-day sequential script (fetch_ga4.js 366-401)
\* ---------------------------------------------------------------------------

\* the days for which a fetch of the kind was issued, in the order of issue
AttemptDays(kind) ==
    LET hits == SelectSeq(requests, LAMBDA r : r.kind = kind)
    IN [i \in 1..Len(hits) |-> hits[i].day]

\* the days of the loop whose fetch of the kind (ref, then auth, then sec) is
\* behind the loop's position
DaysBehind(kind) ==
    IF pc = "done" THEN dayList
    ELSE IF pc \notin {"day_ref", "day_auth", "day_sec"} THEN <<>>
    ELSE IF \/ pc = "day_ref"
            \/ (pc = "day_auth" /\ kind \in {"auth", "sec"})
            \/ (pc = "day_sec" /\ kind = "sec")
         THEN SubSeq(dayList, 1, dayIdx - 1)
         ELSE SubSeq(dayList, 1, dayIdx)

Ascending(days) == \A i, j \in DOMAIN days : i < j => days[i] < days[j]

\* every day up to the loop's position had one fetch of each configured kind,
\* in ascending order of the days, whatever the outcomes were
SeqAttemptsFollowDays ==
    (script = "perday_seq" /\ kpiState = "ok") =>
        /\ Ascending(dayList)
        /\ AttemptDays("ref") = DaysBehind("ref")
        /\ AttemptDays("auth") = IF dimAuthor THEN DaysBehind("auth") ELSE <<>>
        /\ AttemptDays("sec") = IF dimSection THEN DaysBehind("sec") ELSE <<>>

\* a run whose KPI report resolved ends with the document written and status 0
SeqRunCompletes ==
    (script = "perday_seq" /\ kpiState = "ok" /\ pc = "done") =>
        /\ written /\ exitCode = 0
        /\ dayIdx = Len(dayList)

\* a fetch that fails moves the loop as a fetch that succeeds does
SeqFailureDoesNotStop ==
    (script = "perday_seq" /\ failures' > failures) =>
        /\ exitCode' = IF pc' = "done" THEN 0 ELSE exitCode
        /\ dayIdx' \in {dayIdx, dayIdx + 1}
        /\ pc' = "done" \/ <<dayIdx', pc'>> # <<dayIdx, pc>>
        /\ pc' = "done" => dayIdx = Len(dayList)

\* C29: the per-day sequential fetcher walks the days in ascending order,
\* issues exactly one referrer fetch per day (and one author and one section
\* fetch when configured), and a failed fetch neither aborts the run nor stops
\* the fetches of later days: the run writes the document and exits 0.
C29_EveryDayFetchedDespiteFailures ==
    /\ []SeqAttemptsFollowDays
    /\ []SeqRunCompletes
    /\ [][SeqFailureDoesNotStop]_vars

\* a written document in which a day's referrer fetch failed and the fetch of
\* the last day succeeded
C29_Witness ==
    /\ script = "perday_seq" /\ written /\ failures > 0
    /\ AttemptDays("ref") = dayList
    /\ \E i \in DOMAIN rows :
          /\ i < Len(rows)
          /\ "referrers" \notin DOMAIN rows[i]
          /\ "referrers" \in DOMAIN rows[Len(rows)]


\* ---------------------------------------------------------------------------
\* The fallback call of the WordPress fetcher (part_001 244-255)
\* ---------------------------------------------------------------------------

\* the time-filtered call returns in this step (it neither goes on to another
\* page nor rejects)
FirstLoopReturns ==
    /\ script = "wex_wp" /\ pc = "paging"
    /\ pc' # "paging" /\ exitCode' # 1

\* the fallback call is entered exactly when the first call returns nothing,
\* and a run that entered it stays in it until it ends
FallbackIffNothingCollected ==
    /\ FirstLoopReturns => (pc' = "fallback" <=> Len(articles') = 0)
    /\ (FirstLoopReturns /\ Len(articles') > 0) =>
           /\ pc' = "done" /\ written'
           /\ LoopRequests(FALSE)' = <<>>
    /\ (script = "wex_wp" /\ pc = "fallback") =>
           /\ pc' \in {"fallback", "done"}
           /\ LoopRequests(TRUE)' = LoopRequests(TRUE)

\* requests without the 'after' filter are issued in the fallback call only,
\* after every time-filtered request, and when the first call collected
\* nothing; a finished run holds at most maxPages + 2 requests
FallbackRequestsBounded ==
    script = "wex_wp" =>
        /\ LoopRequests(FALSE) # <<>> => pc \in {"fallback", "done"}
        /\ pc = "fallback" => articles = <<>> \/ LoopRequests(FALSE) # <<>>
        /\ (pc = "done" /\ written /\ LoopRequests(FALSE) = <<>>) => Len(articles) > 0
        /\ \A i, j \in DOMAIN requests :
              (i < j /\ ~requests[i].after) => ~requests[j].after
        /\ Len(LoopRequests(TRUE)) <= MaxPages
        /\ Len(LoopRequests(FALSE)) <= FallbackPages
        /\ Len(requests) <= MaxPages + FallbackPages

\* C30: the WordPress fetcher issues requests without the 'after' filter (at
\* most 2) if and only if the time-filtered loop returned with zero articles;
\* when that loop collected an article the run issues no further request, and
\* a run issues at most maxPages + 2 page requests.
C30_FallbackIffFirstLoopEmpty ==
    /\ []FallbackRequestsBounded
    /\ [][FallbackIffNothingCollected]_vars

\* a run whose first loop collected nothing and whose fallback read both pages
C30_Witness ==
    /\ script = "wex_wp" /\ pc = "done" /\ written
    /\ Len(LoopRequests(TRUE)) = 1
    /\ Len(LoopRequests(FALSE)) = FallbackPages
    /\ Len(articles) > 0


=============================================================================
